---- MODULE Spec2Model ----
(***************************************************************************)
(* issue-sync: reconciliation of GitHub issues into JIRA tickets.          *)
(*                                                                         *)
(* The module models                                                       *)
(*   - the two field mappers (cfg.DefaultFieldMapper, cfg.JsonFieldMapper) *)
(*   - issuesyncjira.ListIssues and TryApplyTransitionWithStatusName       *)
(*   - the engine in lib/issues.go (CompareIssues, DidIssueChange,         *)
(*     UpdateIssue, CreateIssue)                                           *)
(* Values of Go's interface{} and JSON documents are tagged records        *)
(* [k |-> kind, v |-> payload].                                            *)
(***************************************************************************)
EXTENDS Integers, Sequences, FiniteSets, TLC

VARIABLES
    strategy,     \* the configured cfg.FieldMapper: "default" or "json"
    mIssue,       \* field mapper harness: the source issue
    mTicket,      \* field mapper harness: the jira.Issue being read
    mKey,         \* field mapper harness: the FieldKey last read
    mResult,      \* field mapper harness: (value, error) of the last read
    mpc,          \* field mapper harness: position
    lIds,         \* ListIssues harness: ghIssueIds
    lProject,     \* ListIssues harness: the tickets stored in the JIRA project
    lOut,         \* ListIssues harness: what the call did and returned
    lpc,          \* ListIssues harness: position
    ghIssues,     \* engine: the source issues of the run, in processing order
    jira,         \* engine: the tickets stored in the JIRA project, by key
    workflow,     \* engine: the transitions the server offers from each status
    listed,       \* engine: the tickets listed at the start of the run
    cursor,       \* engine: index of the source issue being reconciled
    pc,           \* engine: position in CompareIssues / UpdateIssue / CreateIssue
    fn,           \* engine: "UpdateIssue", "CreateIssue" or "none"
    current,      \* engine: the jira.Issue the current function holds
    log,          \* engine: calls made and errors logged, in order
    failures,     \* engine: number of remote calls that have failed
    tIssue,       \* transition harness: the jira.Issue passed
    tName,        \* transition harness: statusName
    tTransitions, \* transition harness: the transitions the server lists
    tOut,         \* transition harness: the calls made and the result
    tpc,          \* transition harness: position
    rTimeout,     \* Retry: the timeout (b.MaxElapsedTime), in ticks
    rElapsed,     \* Retry: ticks elapsed since Retry was entered
    rHist,        \* Retry: for each invocation of f, its error and when it ended
    rLast,        \* Retry: the closure's ret and res, and err of the last invocation
    rResult,      \* Retry: what Retry returned
    rpc,          \* Retry: position
    rSite,        \* Retry: the remote call made
    gHas,         \* GitHub ListIssues: repo.GetHasProjects()
    gEventsUp,    \* GitHub ListIssues: whether listing issue events will succeed
    gPage,        \* GitHub ListIssues: page
    gLimit,       \* GitHub ListIssues: pages
    gIssues,      \* GitHub ListIssues: issues
    gReq,         \* GitHub ListIssues: the listByRepo requests made and their responses
    gResult,      \* GitHub ListIssues: what it returned
    gpc,          \* GitHub ListIssues: position
    cDry,         \* JIRA client: config.IsDryRun()
    cCalls,       \* JIRA client: the Client methods called, with what they returned
    cRemote,      \* JIRA client: the requests that reached the JIRA service
    fServer,      \* field resolution: the names of the fields the JIRA server lists
    fResult,      \* field resolution: what GetFieldIDs returned
    fpc,          \* field resolution: position
    dA,           \* comparison: the first commit list
    dB,           \* comparison: the second commit list
    dIssue,       \* comparison: the source issue
    dTicket,      \* comparison: the jira.Issue compared with it
    dOut,         \* comparison: what the function returned
    dpc,          \* comparison: position
    eHistory,     \* event walk: the issue events the server holds, in order
    eStyle,       \* event walk: how the server reports LastPage
    eUp,          \* event walk: whether listing issue events succeeds
    eResult,      \* event walk: what getCurrentProjectCardAndCommitIds returned
    epc,          \* event walk: position
    kpc,          \* comment: position
    kFn,          \* comment: "CreateComment" or "UpdateComment"
    kHeader,      \* comment: length of the header of the body
    kText,        \* comment: length of the source comment text
    kSent         \* comment: the body submitted, as a slice of the full body

vars == <<strategy, mIssue, mTicket, mKey, mResult, mpc, lIds, lProject, lOut, lpc,
          ghIssues, jira, workflow, listed, cursor, pc, fn, current, log,
          failures, tIssue, tName, tTransitions, tOut, tpc,
          rTimeout, rElapsed, rHist, rLast, rResult, rpc, rSite,
          gHas, gEventsUp, gPage, gLimit, gIssues, gReq, gResult, gpc,
          cDry, cCalls, cRemote,
          fServer, fResult, fpc,
          dA, dB, dIssue, dTicket, dOut, dpc,
          eHistory, eStyle, eUp, eResult, epc,
          kpc, kFn, kHeader, kText, kSent>>

engineVars == <<ghIssues, jira, workflow, listed, cursor, pc, fn, current, log,
                failures>>

mapperVars == <<mIssue, mTicket, mKey, mResult, mpc>>

listVars == <<lIds, lProject, lOut, lpc>>

transVars == <<tIssue, tName, tTransitions, tOut, tpc>>

retryVars == <<rTimeout, rElapsed, rHist, rLast, rResult, rpc, rSite>>

sourceVars == <<gHas, gEventsUp, gPage, gLimit, gIssues, gReq, gResult, gpc>>

clientVars == <<cDry, cCalls, cRemote>>

resolveVars == <<fServer, fResult, fpc>>

compareVars == <<dA, dB, dIssue, dTicket, dOut, dpc>>

eventVars == <<eHistory, eStyle, eUp, eResult, epc>>

commentVars == <<kpc, kFn, kHeader, kText, kSent>>

\* what the actions of one part leave alone: the variables of the other parts
restOfEngine ==
    <<mapperVars, listVars, transVars, retryVars, sourceVars, clientVars,
      resolveVars,
      compareVars,
      eventVars,
      commentVars>>

restOfMapper ==
    <<listVars, engineVars, transVars, retryVars, sourceVars, clientVars,
      resolveVars,
      compareVars,
      eventVars,
      commentVars>>

restOfList ==
    <<mapperVars, engineVars, transVars, retryVars, sourceVars, clientVars,
      resolveVars,
      compareVars,
      eventVars,
      commentVars>>

restOfTrans ==
    <<mapperVars, listVars, engineVars, retryVars, sourceVars, clientVars,
      resolveVars,
      compareVars,
      eventVars,
      commentVars>>

restOfRetry ==
    <<mapperVars, listVars, engineVars, transVars, sourceVars, clientVars,
      resolveVars,
      compareVars,
      eventVars,
      commentVars>>

restOfSource ==
    <<mapperVars, listVars, engineVars, transVars, retryVars, clientVars,
      resolveVars,
      compareVars,
      eventVars,
      commentVars>>

restOfClient ==
    <<mapperVars, listVars, engineVars, transVars, retryVars, sourceVars,
      resolveVars,
      compareVars,
      eventVars,
      commentVars>>

restOfResolve ==
    <<engineVars, mapperVars, listVars, transVars, retryVars, sourceVars, clientVars,
      compareVars,
      eventVars,
      commentVars>>

restOfCompare ==
    <<engineVars, mapperVars, listVars, transVars, retryVars, sourceVars, clientVars, resolveVars,
      eventVars,
      commentVars>>

restOfEvents ==
    <<engineVars, mapperVars, listVars, transVars, retryVars, sourceVars, clientVars, resolveVars, compareVars,
      commentVars>>

restOfComment ==
    <<engineVars, mapperVars, listVars, transVars, retryVars, sourceVars, clientVars, resolveVars, compareVars, eventVars>>

Strategies == {"default", "json"}

-----------------------------------------------------------------------------
(* int64 and float64.  An int64 in 0 .. 2^61-1 is the pair hi * 2^30 + lo. *)

MantissaBits == 53

I64(h, l) == [hi |-> h, lo |-> l]

Small(n) == I64(0, n)

RECURSIVE BitLen(_)
BitLen(n) == IF n = 0 THEN 0 ELSE 1 + BitLen(n \div 2)

\* The float64 nearest to the integer x (round half to even), as encoding/json
\* produces when it decodes a JSON number into interface{}.
Float64Of(x) ==
    LET d == BitLen(x.hi) + 30 - MantissaBits
    IN  IF d <= 0 THEN x
        ELSE LET p    == 2^d
                 q    == x.lo \div p
                 r    == x.lo % p
                 half == p \div 2
                 up   == r > half \/ (r = half /\ q % 2 = 1)
                 lo2  == (q + (IF up THEN 1 ELSE 0)) * p
             IN  IF lo2 = 2^30 THEN I64(x.hi + 1, 0) ELSE I64(x.hi, lo2)

-----------------------------------------------------------------------------
(* JSON documents and Go values *)

JNull      == [k |-> "null"]
JStr(s)    == [k |-> "string", v |-> s]
JNum(n)    == [k |-> "number", v |-> n]
JArr(a)    == [k |-> "array", v |-> a]

GoNil        == [k |-> "nil"]
GoString(s)  == [k |-> "string", v |-> s]
GoInt64(n)   == [k |-> "int64", v |-> n]
GoFloat64(n) == [k |-> "float64", v |-> n]
GoSlice(a)   == [k |-> "slice", v |-> a]

\* encoding/json decoding of one JSON value into interface{}
Unmarshal(j) ==
    CASE j.k = "null"   -> GoNil
      [] j.k = "string" -> GoString(j.v)
      [] j.k = "number" -> GoFloat64(Float64Of(j.v))
      [] j.k = "array"  -> GoSlice([i \in 1..Len(j.v) |-> GoString(j.v[i].v)])

\* a []string; the nil slice and the empty slice are different Go values
NilSlice      == [isNil |-> TRUE, elems |-> <<>>]
StrSlice(a)   == [isNil |-> FALSE, elems |-> a]

\* encoding/json encoding of a []string
MarshalStrings(s) ==
    IF s.isNil THEN JNull ELSE JArr([i \in 1..Len(s.elems) |-> JStr(s.elems[i])])

\* strings.Join(a, ",")
RECURSIVE Join(_)
Join(a) ==
    IF Len(a) = 0 THEN ""
    ELSE IF Len(a) = 1 THEN a[1]
    ELSE a[1] \o "," \o Join(Tail(a))

-----------------------------------------------------------------------------
(* cfg.FieldKey and the physical fields *)

GitHubID        == "GitHubID"
GitHubNumber    == "GitHubNumber"
GitHubLabels    == "GitHubLabels"
GitHubStatus    == "GitHubStatus"
GitHubReporter  == "GitHubReporter"
GitHubCommits   == "GitHubCommits"
LastISUpdate    == "LastISUpdate"
GitHubIssueData == "GitHubIssueData"

FieldKeys == {GitHubID, GitHubNumber, GitHubLabels, GitHubStatus,
              GitHubReporter, GitHubCommits, LastISUpdate, GitHubIssueData}

\* The custom field IDs a successful GetFieldIDs resolves, per mapper.
DefaultFieldMapper_GetFieldIDs ==
    [f \in {GitHubID, GitHubNumber, GitHubLabels, GitHubStatus,
            GitHubReporter, LastISUpdate} |-> f]

JsonFieldMapper_GetFieldIDs ==
    [f \in {GitHubIssueData} |-> f]

GetFieldIDs(s) ==
    IF s = "default" THEN DefaultFieldMapper_GetFieldIDs
                     ELSE JsonFieldMapper_GetFieldIDs

\* "customfield_<id>"; a key without a resolved ID gives "customfield_"
GetCompleteFieldKey(s, key) ==
    IF key \in DOMAIN GetFieldIDs(s)
    THEN "customfield_" \o GetFieldIDs(s)[key]
    ELSE "customfield_"

-----------------------------------------------------------------------------
(* tcontainer.MarshalMap accessors on jira.IssueFields.Unknowns *)

Ok(v)   == [st |-> "ok", val |-> v]
Err     == [st |-> "err", val |-> GoNil]
Panic   == [st |-> "panic", val |-> GoNil]
NoResult == [st |-> "none", val |-> GoNil]

\* Unknowns.Int: the value as int64; an error if unset or not a number
Unknowns_Int(u, name) ==
    IF name \notin DOMAIN u THEN Err
    ELSE IF u[name].k \in {"int64", "float64"} THEN Ok(GoInt64(u[name].v))
    ELSE Err

\* Unknowns.String: the value as string; an error if unset or not a string
Unknowns_String(u, name) ==
    IF name \notin DOMAIN u THEN Err
    ELSE IF u[name].k = "string" THEN Ok(u[name])
    ELSE Err

\* parsedJson[name] of a map[string]interface{}: nil when the key is missing
MapIndex(m, name) == IF name \in DOMAIN m THEN Unmarshal(m[name]) ELSE GoNil

-----------------------------------------------------------------------------
(* Source issues: models.ExtendedGithubIssue *)

NoCard       == [present |-> FALSE, column |-> ""]
Card(column) == [present |-> TRUE, column |-> column]

Issue(id, number, title, state, labels, commits, card) ==
    [id |-> id, number |-> number, title |-> title, body |-> "body",
     state |-> state, login |-> "alice", labels |-> labels,
     commitIds |-> commits, card |-> card]

-----------------------------------------------------------------------------
(* The field mappers *)

Now == "now"

\* the ticket blob written by JsonFieldMapper.MapFields, as a JSON object
BlobOf(issue) ==
    [githubId            |-> JNum(issue.id),
     githubNumber        |-> JNum(Small(issue.number)),
     githubStatus        |-> JStr(issue.state),
     githubReporter      |-> JStr(issue.login),
     githubLabels        |-> JStr(Join(issue.labels)),
     githubCommits       |-> MarshalStrings(issue.commitIds),
     lastIssueSyncUpdate |-> JStr(Now)]

\* a string holding JSON text is the document it parses to
GoJsonText(doc) == [k |-> "string", v |-> [k |-> "object", v |-> doc]]
GoBadJsonText   == [k |-> "string", v |-> [k |-> "invalid"]]

DefaultFieldMapper_MapFields(issue) ==
    [st |-> "ok",
     fields |->
       [type |-> "Improvement", summary |-> issue.title,
        description |-> issue.body, hasStatus |-> FALSE, status |-> "",
        unknowns |->
          (GetCompleteFieldKey("default", GitHubID) :> GoInt64(issue.id)) @@
          (GetCompleteFieldKey("default", GitHubNumber) :> GoInt64(Small(issue.number))) @@
          (GetCompleteFieldKey("default", GitHubStatus) :> GoString(issue.state)) @@
          (GetCompleteFieldKey("default", GitHubReporter) :> GoString(issue.login)) @@
          (GetCompleteFieldKey("default", GitHubLabels) :> GoString(Join(issue.labels))) @@
          (GetCompleteFieldKey("default", LastISUpdate) :> GoString(Now))]]

JsonFieldMapper_MapFields(issue) ==
    [st |-> "ok",
     fields |->
       [type |-> "Task", summary |-> issue.title,
        description |-> issue.body, hasStatus |-> FALSE, status |-> "",
        unknowns |->
          (GetCompleteFieldKey("json", GitHubIssueData) :> GoJsonText(BlobOf(issue)))]]

MapFields(s, issue) ==
    IF s = "default" THEN DefaultFieldMapper_MapFields(issue)
                     ELSE JsonFieldMapper_MapFields(issue)

DefaultFieldMapper_GetFieldValue(jIssue, fieldKey) ==
    IF fieldKey \in {GitHubID, GitHubNumber}
    THEN Unknowns_Int(jIssue.fields.unknowns, GetCompleteFieldKey("default", fieldKey))
    ELSE IF GetCompleteFieldKey("default", fieldKey) \notin DOMAIN jIssue.fields.unknowns
         THEN Err
         ELSE Ok(jIssue.fields.unknowns[GetCompleteFieldKey("default", fieldKey)])

\* int64(parsedJson[name].(float64))
JsonNumberField(parsedJson, name) ==
    IF MapIndex(parsedJson, name).k = "float64"
    THEN Ok(GoInt64(MapIndex(parsedJson, name).v))
    ELSE Panic

\* JsonFieldMapper.GetFieldValue without the empty-list default for commits
JsonFieldMapper_GetFieldValue_NoCommitsDefault(jIssue, fieldKey) ==
    LET jsonGithubData ==
            Unknowns_String(jIssue.fields.unknowns,
                            GetCompleteFieldKey("json", GitHubIssueData))
    IN  IF jsonGithubData.st # "ok" THEN Err
        ELSE IF jsonGithubData.val.v.k # "object" THEN Err
        ELSE LET parsedJson == jsonGithubData.val.v.v
             IN  CASE fieldKey = GitHubID       -> JsonNumberField(parsedJson, "githubId")
                   [] fieldKey = GitHubNumber   -> JsonNumberField(parsedJson, "githubNumber")
                   [] fieldKey = GitHubLabels   -> Ok(MapIndex(parsedJson, "githubLabels"))
                   [] fieldKey = GitHubStatus   -> Ok(MapIndex(parsedJson, "githubStatus"))
                   [] fieldKey = GitHubReporter -> Ok(MapIndex(parsedJson, "githubReporter"))
                   [] fieldKey = GitHubCommits  -> Ok(MapIndex(parsedJson, "githubCommits"))
                   [] fieldKey = LastISUpdate   -> Ok(MapIndex(parsedJson, "lastIssueSyncUpdate"))
                   [] OTHER                     -> Ok(GoNil)

JsonFieldMapper_GetFieldValue(jIssue, fieldKey) ==
    LET jsonGithubData ==
            Unknowns_String(jIssue.fields.unknowns,
                            GetCompleteFieldKey("json", GitHubIssueData))
    IN  IF jsonGithubData.st # "ok" THEN Err
        ELSE IF jsonGithubData.val.v.k # "object" THEN Err
        ELSE LET parsedJson == jsonGithubData.val.v.v
             IN  CASE fieldKey = GitHubID       -> JsonNumberField(parsedJson, "githubId")
                   [] fieldKey = GitHubNumber   -> JsonNumberField(parsedJson, "githubNumber")
                   [] fieldKey = GitHubLabels   -> Ok(MapIndex(parsedJson, "githubLabels"))
                   [] fieldKey = GitHubStatus   -> Ok(MapIndex(parsedJson, "githubStatus"))
                   [] fieldKey = GitHubReporter -> Ok(MapIndex(parsedJson, "githubReporter"))
                   [] fieldKey = GitHubCommits  ->
                        IF MapIndex(parsedJson, "githubCommits") = GoNil
                        THEN Ok(GoSlice(<<>>))
                        ELSE Ok(MapIndex(parsedJson, "githubCommits"))
                   [] fieldKey = LastISUpdate   -> Ok(MapIndex(parsedJson, "lastIssueSyncUpdate"))
                   [] OTHER                     -> Ok(GoNil)

GetFieldValue(s, jIssue, fieldKey) ==
    IF s = "default" THEN DefaultFieldMapper_GetFieldValue(jIssue, fieldKey)
                     ELSE JsonFieldMapper_GetFieldValue(jIssue, fieldKey)

-----------------------------------------------------------------------------
(* Tickets: the JIRA project's stored tickets and jira.Issue values *)

\* a jira.Issue without Fields (the zero value, or a bare create response)
BareIssue(key) ==
    [key |-> key, hasFields |-> FALSE,
     fields |-> [type |-> "", summary |-> "", description |-> "",
                 hasStatus |-> FALSE, status |-> "", unknowns |-> <<>>]]

\* the JSON the client sends for one Unknowns value
MarshalValue(g) ==
    CASE g.k = "nil"    -> JNull
      [] g.k = "string" -> JStr(g.v)
      [] g.k = "int64"  -> JNum(g.v)

\* the ticket the server stores for a create request carrying `fields`
StoredTicket(key, status, fields) ==
    [key |-> key, summary |-> fields.summary, description |-> fields.description,
     status |-> status,
     custom |-> [n \in DOMAIN fields.unknowns |-> MarshalValue(fields.unknowns[n])]]

\* the jira.Issue the client decodes from the server's JSON for a ticket
DecodeIssue(t) ==
    [key |-> t.key, hasFields |-> TRUE,
     fields |-> [type |-> "", summary |-> t.summary, description |-> t.description,
                 hasStatus |-> TRUE, status |-> t.status,
                 unknowns |-> [n \in DOMAIN t.custom |-> Unmarshal(t.custom[n])]]]

\* a stored ticket with one custom field removed / replaced
DropCustom(t, name) ==
    [t EXCEPT !.custom = [n \in DOMAIN t.custom \ {name} |-> t.custom[n]]]

SetCustom(t, name, j) ==
    [t EXCEPT !.custom = (name :> j) @@ t.custom]

DataField == GetCompleteFieldKey("json", GitHubIssueData)

\* a stored blob ticket with one key of the blob removed / replaced
DropBlobKey(t, name) ==
    LET doc == t.custom[DataField].v.v
    IN  SetCustom(t, DataField,
                  JStr([k |-> "object", v |-> [n \in DOMAIN doc \ {name} |-> doc[n]]]))

SetBlobKey(t, name, j) ==
    LET doc == t.custom[DataField].v.v
    IN  SetCustom(t, DataField, JStr([k |-> "object", v |-> (name :> j) @@ doc]))

-----------------------------------------------------------------------------
(* issuesyncjira.ListIssues *)

maxJQLIssueLength == 100

\* what a remote call wrapped in utils.Retry finally returns: success, an
\* error with an HTTP response, or an error with a nil response
RemoteOutcomes == {"ok", "err", "errNoResp"}

\* getErrorBody(log, res): reads res.Body; a nil res is a nil dereference
getErrorBody(outcome) == IF outcome = "errNoResp" THEN "panic" ELSE "err"

\* the JIRA server's answer to searchIssues(jql) over the project's tickets
InIds(n, ids) == \E i \in 1..Len(ids) : ids[i] = n

JqlMatches(t, jql) ==
    \/ ~jql.filtered
    \/ /\ jql.field \in DOMAIN t.custom
       /\ t.custom[jql.field].k = "number"
       /\ InIds(t.custom[jql.field].v, jql.ids)

RECURSIVE searchIssues(_, _)
searchIssues(project, jql) ==
    IF project = <<>> THEN <<>>
    ELSE IF JqlMatches(Head(project), jql)
         THEN <<DecodeIssue(Head(project))>> \o searchIssues(Tail(project), jql)
         ELSE searchIssues(Tail(project), jql)

\* for _, idOpt := range ghIssueIds { if id == idOpt { append } }: the loop
\* without its break appends v once per listed occurrence of id
AppendIfListed_NoBreak(v, id, ids) ==
    [n \in 1..Cardinality({i \in 1..Len(ids) : ids[i] = id}) |-> v]

\* for _, idOpt := range ghIssueIds { if id == idOpt { append; break } }:
\* appends v once if id occurs in ghIssueIds
AppendIfListed(v, id, ids) ==
    IF \E i \in 1..Len(ids) : ids[i] = id THEN <<v>> ELSE <<>>

\* the client-side filter loop over the search result
RECURSIVE FilterIssues(_, _, _)
FilterIssues(s, jiraIssues, ids) ==
    IF jiraIssues = <<>> THEN [st |-> "ok", issues |-> <<>>]
    ELSE LET v    == Head(jiraIssues)
             id   == GetFieldValue(s, v, GitHubID)
             rest == FilterIssues(s, Tail(jiraIssues), ids)
         IN  IF id.st = "panic" \/ rest.st = "panic"
             THEN [st |-> "panic", issues |-> <<>>]
             ELSE IF id.st = "ok"
                  THEN [st |-> "ok",
                        issues |-> AppendIfListed(v, id.val.v, ids) \o rest.issues]
                  ELSE rest

\* filterWithJql := isDefaultFieldMapper && len(ghIssueIds) < maxJQLIssueLength,
\* with <= in place of <
FilterWithJql_OffByOne(s, ghIssueIds) ==
    s = "default" /\ Len(ghIssueIds) <= maxJQLIssueLength

\* filterWithJql := isDefaultFieldMapper && len(ghIssueIds) < maxJQLIssueLength
FilterWithJql(s, ghIssueIds) ==
    s = "default" /\ Len(ghIssueIds) < maxJQLIssueLength

\* ListIssues(j, timeout, projectKey, githubIdFieldId, ghIssueIds), the search
\* ending with `outcome`
ListIssues(s, project, ghIssueIds, outcome) ==
    LET filterWithJql == FilterWithJql(s, ghIssueIds)
        jql == [filtered |-> filterWithJql,
                field |-> GetCompleteFieldKey(s, GitHubID),
                ids |-> IF filterWithJql THEN ghIssueIds ELSE <<>>]
        base == [st |-> "ok", search |-> outcome, jql |-> jql,
                 clientSide |-> FALSE, issues |-> <<>>]
    IN  IF outcome # "ok"
        THEN [base EXCEPT !.st = getErrorBody(outcome)]
        ELSE IF filterWithJql
             THEN [base EXCEPT !.issues = searchIssues(project, jql)]
             ELSE LET f == FilterIssues(s, searchIssues(project, jql), ghIssueIds)
                  IN  [base EXCEPT !.st = f.st, !.issues = f.issues,
                                   !.clientSide = TRUE]

-----------------------------------------------------------------------------
(* lib/issues.go: the comparison *)

\* strings.ToLower on the status and column names that occur
ToLower(name) ==
    CASE name = "Open"        -> "open"
      [] name = "In Progress" -> "in progress"
      [] name = "IN PROGRESS" -> "in progress"
      [] name = "Done"        -> "done"
      [] name = "Backlog"     -> "backlog"
      [] OTHER                -> name

\* equal length and the same elements, at whatever index
SliceStringsEq_AnyOrder(a, b) ==
    /\ Len(a.elems) = Len(b.elems)
    /\ {a.elems[i] : i \in 1..Len(a.elems)} = {b.elems[i] : i \in 1..Len(b.elems)}

\* utils.SliceStringsEq(a, b): nil is the empty slice; equal length and
\* equal elements at every index
SliceStringsEq(a, b) ==
    LET aa == IF a.isNil THEN <<>> ELSE a.elems
        bb == IF b.isNil THEN <<>> ELSE b.elems
    IN  /\ Len(aa) = Len(bb)
        /\ \A i \in 1..Len(aa) : aa[i] = bb[i]

Bool3(b) == IF b THEN "true" ELSE "false"

jiraCustomFieldsNeedUpdate(s, jIssue, fieldKey, githubFieldValue) ==
    LET jiraField == GetFieldValue(s, jIssue, fieldKey)
    IN  IF jiraField.st = "panic" THEN "panic"
        ELSE IF jiraField.st = "err" THEN "true"
        ELSE IF jiraField.val = GoNil THEN Bool3(githubFieldValue # "")
        ELSE IF jiraField.val.k = "string"
             THEN Bool3(jiraField.val.v # githubFieldValue)
             ELSE "panic"

\* CommitsDiffer taking a read error for "no difference"
CommitsDiffer_ErrorIsEqual(s, ghIssue, jIssue) ==
    LET commits == GetFieldValue(s, jIssue, GitHubCommits)
    IN  IF commits.st = "panic" THEN "panic"
        ELSE IF commits.st = "err" THEN "false"
        ELSE IF commits.val.k # "slice" THEN "panic"
        ELSE Bool3(~SliceStringsEq(
                 StrSlice([i \in 1..Len(commits.val.v) |-> commits.val.v[i].v]),
                 ghIssue.commitIds))

\* commits, err := GetFieldValue(&jIssue, cfg.GitHubCommits) and the statements
\* up to the comparison of the commit lists: "panic", or whether they differ
\* ("true" too for the early return on err)
CommitsDiffer(s, ghIssue, jIssue) ==
    LET commits == GetFieldValue(s, jIssue, GitHubCommits)
    IN  IF commits.st = "panic" THEN "panic"
        ELSE IF commits.st = "err" THEN "true"
        ELSE IF commits.val.k # "slice" THEN "panic"
        ELSE Bool3(~SliceStringsEq(
                 StrSlice([i \in 1..Len(commits.val.v) |-> commits.val.v[i].v]),
                 ghIssue.commitIds))

\* the operands, the last one comparing status and column without ToLower
Operand_CaseSensitive(s, ghIssue, jIssue, n) ==
    CASE n = 1 -> Bool3(ghIssue.title # jIssue.fields.summary)
      [] n = 2 -> Bool3(ghIssue.body # jIssue.fields.description)
      [] n = 3 -> jiraCustomFieldsNeedUpdate(s, jIssue, GitHubStatus, ghIssue.state)
      [] n = 4 -> jiraCustomFieldsNeedUpdate(s, jIssue, GitHubReporter, ghIssue.login)
      [] n = 5 -> CommitsDiffer(s, ghIssue, jIssue)
      [] n = 6 -> jiraCustomFieldsNeedUpdate(s, jIssue, GitHubLabels,
                                             Join(ghIssue.labels))
      [] OTHER -> IF ~ghIssue.card.present THEN "false"
                  ELSE IF ~jIssue.fields.hasStatus THEN "panic"
                  ELSE Bool3(jIssue.fields.status # ghIssue.card.column)

\* the right-hand operand of the n-th statement anyDifferent = anyDifferent || e
Operand(s, ghIssue, jIssue, n) ==
    CASE n = 1 -> Bool3(ghIssue.title # jIssue.fields.summary)
      [] n = 2 -> Bool3(ghIssue.body # jIssue.fields.description)
      [] n = 3 -> jiraCustomFieldsNeedUpdate(s, jIssue, GitHubStatus, ghIssue.state)
      [] n = 4 -> jiraCustomFieldsNeedUpdate(s, jIssue, GitHubReporter, ghIssue.login)
      [] n = 5 -> CommitsDiffer(s, ghIssue, jIssue)
      [] n = 6 -> jiraCustomFieldsNeedUpdate(s, jIssue, GitHubLabels,
                                             Join(ghIssue.labels))
      [] OTHER -> IF ~ghIssue.card.present THEN "false"
                  ELSE IF ~jIssue.fields.hasStatus THEN "panic"
                  ELSE Bool3(ToLower(jIssue.fields.status)
                                 # ToLower(ghIssue.card.column))

\* anyDifferent after statements n and later, having been false before: an
\* operand is evaluated, and may panic, only while anyDifferent is false
RECURSIVE AnyDifferent(_, _, _, _)
AnyDifferent(s, ghIssue, jIssue, n) ==
    IF n > 7 THEN "false"
    ELSE IF Operand(s, ghIssue, jIssue, n) # "false"
         THEN Operand(s, ghIssue, jIssue, n)
         ELSE AnyDifferent(s, ghIssue, jIssue, n + 1)

\* DidIssueChange(config, ghIssue, jIssue): "true", "false" or "panic".  The
\* commit list is read and converted whatever anyDifferent is by then.
DidIssueChange(s, ghIssue, jIssue) ==
    IF AnyDifferent(s, ghIssue, jIssue, 1) # "panic"
       /\ CommitsDiffer(s, ghIssue, jIssue) = "panic"
    THEN "panic"
    ELSE AnyDifferent(s, ghIssue, jIssue, 1)

-----------------------------------------------------------------------------
(* issuesyncjira.TryApplyTransitionWithStatusName *)

\* the first transition offered, whatever its To.Name
FirstTransitionTo_First(transitions, targetStatusName) ==
    IF transitions = <<>> THEN 0 ELSE 1

\* the last transition whose To.Name is the target, ignoring case
FirstTransitionTo_Last(transitions, targetStatusName) ==
    LET hits == {n \in 1..Len(transitions) :
                    ToLower(transitions[n].to) = targetStatusName}
    IN  IF hits = {} THEN 0 ELSE CHOOSE n \in hits : \A m \in hits : n >= m

\* a transition to the target if there is one, else the first one offered
FirstTransitionTo_OrFirst(transitions, targetStatusName) ==
    LET hits == {n \in 1..Len(transitions) :
                    ToLower(transitions[n].to) = targetStatusName}
    IN  IF hits # {} THEN CHOOSE n \in hits : \A m \in hits : n <= m
        ELSE IF transitions = <<>> THEN 0 ELSE 1

\* the index of the first transition whose To.Name is the target, ignoring
\* case; 0 if there is none
FirstTransitionTo(transitions, targetStatusName) ==
    LET hits == {n \in 1..Len(transitions) :
                    ToLower(transitions[n].to) = targetStatusName}
    IN  IF hits = {} THEN 0 ELSE CHOOSE n \in hits : \A m \in hits : n <= m

\* TryApplyTransitionWithStatusName without the early return for a ticket
\* already in the target status
TryApplyTransitionWithStatusName_NoEarlyReturn(issue, statusName, transitions, oList, oApply) ==
    LET targetStatusName == ToLower(statusName)
        n == FirstTransitionTo(transitions, targetStatusName)
    IN  IF oList # "ok"
        THEN [calls |-> <<"getTransitions">>, applied |-> 0,
              ret |-> getErrorBody(oList)]
        ELSE IF n = 0
        THEN [calls |-> <<"getTransitions">>, applied |-> 0,
              ret |-> "noSuchTransition"]
        ELSE IF oApply # "ok"
        THEN [calls |-> <<"getTransitions", "applyTransition">>, applied |-> 0,
              ret |-> getErrorBody("err")]
        ELSE [calls |-> <<"getTransitions", "applyTransition">>, applied |-> n,
              ret |-> "nil"]

\* TryApplyTransitionWithStatusName(j, issue, statusName), where the server
\* offers `transitions` for the ticket, getTransitions ends with oList and
\* applyTransition with oApply.  Returns the calls made, the transition applied
\* (0 for none) and "nil", "err", "noSuchTransition" or "panic".
TryApplyTransitionWithStatusName(issue, statusName, transitions, oList, oApply) ==
    LET currentStatusName ==
            IF ~issue.hasFields \/ ~issue.fields.hasStatus THEN ""
            ELSE ToLower(issue.fields.status)
        targetStatusName == ToLower(statusName)
        n == FirstTransitionTo(transitions, targetStatusName)
    IN  IF currentStatusName = targetStatusName
        THEN [calls |-> <<>>, applied |-> 0, ret |-> "nil"]
        ELSE IF oList # "ok"
        THEN [calls |-> <<"getTransitions">>, applied |-> 0,
              ret |-> getErrorBody(oList)]
        ELSE IF n = 0
        THEN [calls |-> <<"getTransitions">>, applied |-> 0,
              ret |-> "noSuchTransition"]
        ELSE IF oApply # "ok"
        THEN [calls |-> <<"getTransitions", "applyTransition">>, applied |-> 0,
              ret |-> getErrorBody("err")]
        ELSE [calls |-> <<"getTransitions", "applyTransition">>, applied |-> n,
              ret |-> "nil"]

-----------------------------------------------------------------------------
(* ListIssues harness *)

MaxIdCount == 101

MaxProject == 2

\* id lists: 1, 2, .., n, or 1, 2, 1, 2, .. of length n
IdLists ==
    {[i \in 1..n |-> Small(((i - 1) % m) + 1)] :
        n \in (1..3) \cup ((maxJQLIssueLength - 2)..MaxIdCount),
        m \in {2, MaxIdCount + 1}}

ListIssue(n) == Issue(Small(n), n, "T", "open", <<>>, NilSlice, NoCard)

\* tickets of the project: written by MapFields for issues 1, 2 and 150, and
\* tickets without a readable GitHub ID
ProjectTickets(s) ==
    LET T(n) == StoredTicket(n, "Open", MapFields(s, ListIssue(n)).fields)
    IN  {T(1), T(2), T(150)} \cup
        (IF s = "default"
         THEN {DropCustom(T(3), GetCompleteFieldKey(s, GitHubID)),
               SetCustom(T(4), GetCompleteFieldKey(s, GitHubID), JStr("1"))}
         ELSE {DropCustom(T(3), DataField),
               SetCustom(T(4), DataField, JStr([k |-> "invalid"])),
               DropBlobKey(T(5), "githubId")})

Projects(s) ==
    UNION {[1..n -> ProjectTickets(s)] : n \in 0..MaxProject}

NoListOutput ==
    [st |-> "none", search |-> "none",
     jql |-> [filtered |-> FALSE, field |-> "", ids |-> <<>>],
     clientSide |-> FALSE, issues |-> <<>>]

NoWorkflow == [st \in {"Open", "In Progress", "Done"} |-> <<>>]

EngineIdle ==
    /\ ghIssues = <<>>
    /\ jira = <<>>
    /\ workflow = NoWorkflow
    /\ listed = <<>>
    /\ cursor = 0
    /\ pc = "idle"
    /\ fn = "none"
    /\ current = BareIssue(0)
    /\ log = <<>>
    /\ failures = 0

ListIdle ==
    /\ lIds = <<>>
    /\ lProject = <<>>
    /\ lOut = NoListOutput
    /\ lpc = "idle"

MapperIdle ==
    /\ mIssue = ListIssue(1)
    /\ mTicket = BareIssue(0)
    /\ mKey = "none"
    /\ mResult = NoResult
    /\ mpc = "idle"

NoTransitionOutput == [calls |-> <<>>, applied |-> 0, ret |-> "none"]

TransIdle ==
    /\ tIssue = BareIssue(0)
    /\ tName = ""
    /\ tTransitions = <<>>
    /\ tOut = NoTransitionOutput
    /\ tpc = "idle"

\* the zero values of ret, res and err; err 0 is nil and err n the error
\* returned by the n-th invocation
NoValues == [ret |-> 0, res |-> 0, err |-> 0]

RetryIdle ==
    /\ rTimeout = 0
    /\ rElapsed = 0
    /\ rHist = <<>>
    /\ rLast = NoValues
    /\ rResult = NoValues
    /\ rpc = "idle"
    /\ rSite = "none"

NoSourceResult == [issues |-> <<>>, err |-> "none"]

SourceIdle ==
    /\ gHas = FALSE
    /\ gEventsUp = FALSE
    /\ gPage = 0
    /\ gLimit = 0
    /\ gIssues = <<>>
    /\ gReq = <<>>
    /\ gResult = NoSourceResult
    /\ gpc = "idle"

ClientIdle ==
    /\ cDry = FALSE
    /\ cCalls = <<>>
    /\ cRemote = <<>>

ResolveIdle ==
    /\ fServer = {}
    /\ fResult = [ids |-> <<>>, err |-> "none"]
    /\ fpc = "idle"

CompareIdle ==
    /\ dpc = "idle"
    /\ dA = NilSlice
    /\ dB = NilSlice
    /\ dIssue = "none"
    /\ dTicket = "none"
    /\ dOut = "none"

EventsIdle ==
    /\ eHistory = <<>>
    /\ eStyle = "none"
    /\ eUp = FALSE
    /\ eResult = "none"
    /\ epc = "idle"

CommentIdle ==
    /\ kpc = "idle"
    /\ kFn = "none"
    /\ kHeader = 0
    /\ kText = 0
    /\ kSent = [lo |-> 0, hi |-> 0]

\* the parts other than `part` are not in use
OthersIdle(part) ==
    /\ part = "engine" \/ EngineIdle
    /\ part = "mapper" \/ MapperIdle
    /\ part = "list" \/ ListIdle
    /\ part = "transition" \/ TransIdle
    /\ part = "retry" \/ RetryIdle
    /\ part = "source" \/ SourceIdle
    /\ part = "client" \/ ClientIdle
    /\ part = "resolve" \/ ResolveIdle
    /\ part = "compare" \/ CompareIdle
    /\ part = "events" \/ EventsIdle
    /\ part = "comment" \/ CommentIdle

ListInit ==
    /\ strategy \in Strategies
    /\ lIds \in IdLists
    /\ lProject \in Projects(strategy)
    /\ lOut = NoListOutput
    /\ lpc = "call"
    /\ OthersIdle("list")

L_ListIssues ==
    /\ lpc = "call"
    /\ \E outcome \in RemoteOutcomes :
          lOut' = ListIssues(strategy, lProject, lIds, outcome)
    /\ lpc' = "done"
    /\ UNCHANGED <<strategy, lIds, lProject, restOfList>>

ListNext == L_ListIssues

SpecList == ListInit /\ [][ListNext]_vars

-----------------------------------------------------------------------------
(* Field mapper harness: MapFields and GetFieldValue applied to samples *)

SampleIds ==
    {Small(1), Small(2), Small(42),
     I64(2^23, 0), I64(2^23, 1), I64(2^23, 2), I64(2^23, 3),
     I64(2^30, 128), I64(2^30, 384)}

MapperIssues ==
    {Issue(id, 7, "T", "open", labels, commits, NoCard) :
        id \in SampleIds,
        labels \in {<<>>, <<"a", "b">>},
        commits \in {NilSlice, StrSlice(<<>>), StrSlice(<<"c1", "c2">>)}}

\* tickets as they may be found in the project: written by MapFields from
\* the issue, then possibly edited in one custom field
MapperTickets(s, issue) ==
    LET base == StoredTicket(1, "Open", MapFields(s, issue).fields)
    IN  IF s = "default"
        THEN {base,
              DropCustom(base, GetCompleteFieldKey(s, GitHubID)),
              SetCustom(base, GetCompleteFieldKey(s, GitHubID), JStr("x")),
              DropCustom(base, GetCompleteFieldKey(s, GitHubStatus)),
              SetCustom(base, GetCompleteFieldKey(s, GitHubStatus), JNull)}
        ELSE {base,
              DropCustom(base, DataField),
              SetCustom(base, DataField, JStr([k |-> "invalid"])),
              SetCustom(base, DataField, JNum(Small(5))),
              SetCustom(base, DataField, JStr([k |-> "object", v |-> <<>>])),
              DropBlobKey(base, "githubCommits"),
              SetBlobKey(base, "githubCommits", JNull),
              SetBlobKey(base, "githubCommits", JArr(<<JStr("c9")>>)),
              DropBlobKey(base, "githubId"),
              SetBlobKey(base, "githubId", JStr("1")),
              DropBlobKey(base, "githubStatus")}

MapperInit ==
    /\ strategy \in Strategies
    /\ mIssue \in MapperIssues
    /\ mTicket = BareIssue(0)
    /\ mKey = "none"
    /\ mResult = NoResult
    /\ mpc = "input"
    /\ OthersIdle("mapper")

\* ticket := jira.Issue{Fields: MapFields(issue)}
M_MapFields ==
    /\ mpc = "input"
    /\ MapFields(strategy, mIssue).st = "ok"
    /\ mTicket' = [key |-> 0, hasFields |-> TRUE,
                   fields |-> MapFields(strategy, mIssue).fields]
    /\ mpc' = "mapped"
    /\ UNCHANGED <<strategy, mIssue, mKey, mResult, restOfMapper>>

\* ticket := a ticket fetched from the project
M_Fetch ==
    /\ mpc = "input"
    /\ \E t \in MapperTickets(strategy, mIssue) : mTicket' = DecodeIssue(t)
    /\ mpc' = "fetched"
    /\ UNCHANGED <<strategy, mIssue, mKey, mResult, restOfMapper>>

\* GetFieldValue(ticket, key)
M_GetFieldValue ==
    /\ mpc \in {"mapped", "fetched"}
    /\ \E key \in FieldKeys :
          /\ mKey' = key
          /\ mResult' = GetFieldValue(strategy, mTicket, key)
    /\ UNCHANGED <<strategy, mIssue, mTicket, mpc, restOfMapper>>

MapperNext == M_MapFields \/ M_Fetch \/ M_GetFieldValue

SpecMapper == MapperInit /\ [][MapperNext]_vars

-----------------------------------------------------------------------------
(* The engine: lib/issues.go over a JIRA project *)

MaxIssues == 2

MaxFailures == 1

InitialStatus == "Open"

WorkflowFull ==
    [st \in {"Open", "In Progress", "Done"} |->
        CASE st = "Open"        -> <<[id |-> "11", to |-> "In Progress"],
                                     [id |-> "12", to |-> "Done"]>>
          [] st = "In Progress" -> <<[id |-> "21", to |-> "Done"],
                                     [id |-> "22", to |-> "Open"]>>
          [] OTHER              -> <<>>]

Workflows == {WorkflowFull, NoWorkflow}

\* what a run meets for one source issue: its board column, and the ticket the
\* project holds for it ("none", "same" as MapFields writes it, "stale":
\* written for an older title, or "twice": a stale ticket and a later one with
\* the same GitHub ID) with that ticket's workflow status
EngineCases ==
    {[card |-> NoCard,              ticket |-> "none",  status |-> InitialStatus],
     [card |-> Card("In Progress"), ticket |-> "none",  status |-> InitialStatus],
     [card |-> Card("Backlog"),     ticket |-> "none",  status |-> InitialStatus],
     [card |-> NoCard,              ticket |-> "same",  status |-> InitialStatus],
     [card |-> Card("In Progress"), ticket |-> "stale", status |-> InitialStatus],
     [card |-> Card("In Progress"), ticket |-> "same",  status |-> InitialStatus],
     [card |-> Card("IN PROGRESS"), ticket |-> "same",  status |-> "In Progress"],
     [card |-> NoCard,              ticket |-> "twice", status |-> InitialStatus]}

CaseIssue(i, c, title) ==
    Issue(Small(i), i, title, "open", <<"bug">>,
          IF c.card.present THEN StrSlice(<<"c1">>) ELSE NilSlice, c.card)

\* the same source issue with an identifier from 2^53 on, as an int64 allows
BigIssue(i, c, title) ==
    [CaseIssue(i, c, title) EXCEPT !.id = I64(2^23, i - 1)]

\* the project before the run: one ticket per case that has one, keyed 1, 2, ..,
\* followed by a second ticket, written for the present title, for each case
\* "twice"; IssueOf gives the source issue a ticket was written for
ProjectOf(s, cases, IssueOf(_, _, _)) ==
    LET kept == SelectSeq([i \in 1..Len(cases) |-> i],
                          LAMBDA i : cases[i].ticket # "none")
        again == SelectSeq([i \in 1..Len(cases) |-> i],
                           LAMBDA i : cases[i].ticket = "twice")
    IN  [k \in 1..Len(kept) |->
            StoredTicket(k, cases[kept[k]].status,
                         MapFields(s, IssueOf(kept[k], cases[kept[k]],
                                              IF cases[kept[k]].ticket
                                                     \in {"stale", "twice"}
                                              THEN "old title" ELSE "title")).fields)]
        \o
        [k \in 1..Len(again) |->
            StoredTicket(Len(kept) + k, cases[again[k]].status,
                         MapFields(s, IssueOf(again[k], cases[again[k]],
                                              "title")).fields)]

CaseProject(s, cases) == ProjectOf(s, cases, CaseIssue)

BigProject(s, cases) == ProjectOf(s, cases, BigIssue)

Init ==
    /\ strategy \in Strategies
    /\ workflow \in Workflows
    /\ \E n \in 0..MaxIssues : \E cases \in [1..n -> EngineCases] :
          /\ ghIssues = [i \in 1..n |-> CaseIssue(i, cases[i], "title")]
          /\ jira = CaseProject(strategy, cases)
    /\ listed = <<>>
    /\ cursor = 0
    /\ pc = "start"
    /\ fn = "none"
    /\ current = BareIssue(0)
    /\ log = <<>>
    /\ failures = 0
    /\ OthersIdle("engine")

Ev(op, key, res) == [op |-> op, i |-> cursor, key |-> key, res |-> res]

\* the outcomes a remote call may have now
Outcomes == IF failures < MaxFailures THEN RemoteOutcomes ELSE {"ok"}

Failed(o) == IF o = "ok" THEN 0 ELSE 1

\* the inner loop without the comparison of the two ids: the first ticket
\* from index n on whose GitHub ID can be read
FindMatch_First(s, ghIssue, jiraIssues, n) ==
    LET readable == {m \in n..Len(jiraIssues) :
                        GetFieldValue(s, jiraIssues[m], GitHubID).st = "ok"}
    IN  IF readable = {} THEN [st |-> "none", at |-> 0]
        ELSE [st |-> "found",
              at |-> CHOOSE m \in readable : \A k \in readable : m <= k]

\* the inner loop never finding a ticket
FindMatch_Never(s, ghIssue, jiraIssues, n) == [st |-> "none", at |-> 0]

\* the inner loop without its break: the last ticket from index n on whose
\* GitHub ID is ghIssue's
FindMatch_Last(s, ghIssue, jiraIssues, n) ==
    LET hits == {m \in n..Len(jiraIssues) :
                    GetFieldValue(s, jiraIssues[m], GitHubID)
                        = Ok(GoInt64(ghIssue.id))}
    IN  IF hits = {} THEN [st |-> "none", at |-> 0]
        ELSE [st |-> "found", at |-> CHOOSE m \in hits : \A k \in hits : m >= k]

\* the inner loop of CompareIssues over jiraIssues from index n on: the index
\* of the first ticket whose GitHub ID is ghIssue's
RECURSIVE FindMatch(_, _, _, _)
FindMatch(s, ghIssue, jiraIssues, n) ==
    IF n > Len(jiraIssues) THEN [st |-> "none", at |-> 0]
    ELSE LET id == GetFieldValue(s, jiraIssues[n], GitHubID)
         IN  IF id.st = "panic" THEN [st |-> "panic", at |-> n]
             ELSE IF id.st = "err" THEN FindMatch(s, ghIssue, jiraIssues, n + 1)
             ELSE IF id.val.k # "int64" THEN [st |-> "panic", at |-> n]
             ELSE IF id.val.v = ghIssue.id THEN [st |-> "found", at |-> n]
             ELSE FindMatch(s, ghIssue, jiraIssues, n + 1)

\* the ticket the server stores after an update request carrying `fields`
UpdatedTicket(t, fields) ==
    [t EXCEPT !.summary = fields.summary,
              !.description = fields.description,
              !.custom = [n \in DOMAIN fields.unknowns |->
                              MarshalValue(fields.unknowns[n])] @@ t.custom]

\* UpdateIssue / CreateIssue returned err: the loop starting again from the
\* first source issue
ReturnErr_Restart(events, err) ==
    /\ log' = log \o events \o <<Ev("log.Errorf", current.key, err)>>
    /\ cursor' = 1
    /\ pc' = "loop"
    /\ fn' = "none"

\* UpdateIssue / CreateIssue returned err: CompareIssues logs it and goes on
\* with the next source issue
ReturnErr(events, err) ==
    /\ log' = log \o events \o <<Ev("log.Errorf", current.key, err)>>
    /\ cursor' = cursor + 1
    /\ pc' = "loop"
    /\ fn' = "none"

\* a nil dereference or failed type assertion: the process dies
Panics(events) ==
    /\ log' = log \o events
    /\ pc' = "panicked"
    /\ UNCHANGED <<cursor, fn>>

\* CompareIssues up to its loop: the ticket list is fetched once
CompareIssues_ListIssues ==
    /\ pc = "start"
    /\ IF ghIssues = <<>>
       THEN /\ pc' = "done"
            /\ UNCHANGED <<listed, cursor, log, failures>>
       ELSE \E o \in Outcomes :
            \E r \in {ListIssues(strategy, jira,
                                  [i \in 1..Len(ghIssues) |-> ghIssues[i].id], o)} :
                   /\ listed' = r.issues
                   /\ log' = Append(log, Ev("ListIssues", 0, r.st))
                   /\ failures' = failures + Failed(o)
                   /\ cursor' = IF r.st = "ok" THEN 1 ELSE 0
                   /\ pc' = CASE r.st = "ok"  -> "loop"
                              [] r.st = "err" -> "failed"
                              [] OTHER        -> "panicked"
    /\ UNCHANGED <<strategy, ghIssues, jira, workflow, fn, current,
                   restOfEngine>>

\* one turn of the loop of CompareIssues: match the source issue, then enter
\* UpdateIssue or CreateIssue
CompareIssues_Match ==
    /\ pc = "loop"
    /\ IF cursor > Len(ghIssues)
       THEN /\ pc' = "done"
            /\ UNCHANGED <<fn, current, log>>
       ELSE \E m \in {FindMatch(strategy, ghIssues[cursor], listed, 1)} :
                CASE m.st = "panic" ->
                       /\ pc' = "panicked"
                       /\ UNCHANGED <<fn, current, log>>
                  [] m.st = "found" ->
                       /\ pc' = "update"
                       /\ fn' = "UpdateIssue"
                       /\ current' = listed[m.at]
                       /\ log' = Append(log, Ev("UpdateIssue", listed[m.at].key, "call"))
                  [] OTHER ->
                       /\ pc' = "create"
                       /\ fn' = "CreateIssue"
                       /\ current' = BareIssue(0)
                       /\ log' = Append(log, Ev("CreateIssue", 0, "call"))
    /\ UNCHANGED <<strategy, ghIssues, jira, workflow, listed, cursor, failures,
                   restOfEngine>>

\* UpdateIssue going straight to CompareComments when nothing changed
UpdateIssue_DidIssueChange_NoRefetch ==
    /\ pc = "update"
    /\ \E d \in {DidIssueChange(strategy, ghIssues[cursor], current)} :
       LET ghIssue == ghIssues[cursor]
           ev == <<Ev("DidIssueChange", current.key, d)>>
       IN  CASE d = "panic" -> Panics(ev)
             [] d = "true"  ->
                  /\ log' = log \o ev
                  /\ pc' = IF ghIssue.card.present THEN "transition" ELSE "write"
                  /\ UNCHANGED <<cursor, fn>>
             [] OTHER ->
                  /\ log' = log \o ev
                  /\ pc' = "comments"
                  /\ UNCHANGED <<cursor, fn>>
    /\ UNCHANGED <<strategy, ghIssues, jira, workflow, listed, current, failures,
                   restOfEngine>>

\* UpdateIssue up to its first remote call
UpdateIssue_DidIssueChange ==
    /\ pc = "update"
    /\ \E d \in {DidIssueChange(strategy, ghIssues[cursor], current)} :
       LET ghIssue == ghIssues[cursor]
           ev == <<Ev("DidIssueChange", current.key, d)>>
       IN  CASE d = "panic" -> Panics(ev)
             [] d = "true"  ->
                  /\ log' = log \o ev
                  /\ pc' = IF ghIssue.card.present THEN "transition" ELSE "write"
                  /\ UNCHANGED <<cursor, fn>>
             [] OTHER ->
                  /\ log' = log \o ev
                  /\ pc' = "refetch"
                  /\ UNCHANGED <<cursor, fn>>
    /\ UNCHANGED <<strategy, ghIssues, jira, workflow, listed, current, failures,
                   restOfEngine>>

\* the call of TryApplyTransitionWithStatusName in UpdateIssue and CreateIssue
TryApplyTransition ==
    /\ pc = "transition"
    /\ \E oList \in Outcomes, oApply \in Outcomes :
       \E r \in {TryApplyTransitionWithStatusName(
                      current, ghIssues[cursor].card.column,
                      workflow[jira[current.key].status], oList, oApply)} :
          LET transitions == workflow[jira[current.key].status]
              ev == [n \in 1..Len(r.calls) |->
                        Ev(r.calls[n], current.key, IF n = 1 THEN oList ELSE oApply)]
          IN  /\ Len(r.calls) < 1 => oList = "ok"
              /\ Len(r.calls) < 2 => oApply = "ok"
              /\ failures + Failed(oList) + Failed(oApply) <= MaxFailures
              /\ failures' = failures + Failed(oList) + Failed(oApply)
              /\ jira' = IF r.applied = 0 THEN jira
                         ELSE [jira EXCEPT ![current.key].status =
                                               transitions[r.applied].to]
              /\ CASE r.ret = "nil" ->
                        /\ log' = log \o ev
                        /\ pc' = IF fn = "UpdateIssue" THEN "write" ELSE "refetch"
                        /\ UNCHANGED <<cursor, fn>>
                   [] r.ret = "panic" -> Panics(ev)
                   [] OTHER -> ReturnErr(ev, r.ret)
    /\ UNCHANGED <<strategy, ghIssues, workflow, listed, current,
                   restOfEngine>>

\* issuesyncjira.UpdateIssue called by UpdateIssue
UpdateIssue_Write ==
    /\ pc = "write"
    /\ \E o \in Outcomes :
          LET fields == MapFields(strategy, ghIssues[cursor]).fields
              ev == <<Ev("updateIssue", current.key, o)>>
          IN  /\ failures' = failures + Failed(o)
              /\ jira' = IF o = "ok"
                         THEN [jira EXCEPT ![current.key] =
                                  UpdatedTicket(jira[current.key], fields)]
                         ELSE jira
              /\ CASE o = "ok" ->
                        /\ log' = log \o ev
                        /\ pc' = "refetch"
                        /\ UNCHANGED <<cursor, fn>>
                   [] getErrorBody(o) = "panic" -> Panics(ev)
                   [] OTHER -> ReturnErr(ev, "err")
    /\ UNCHANGED <<strategy, ghIssues, workflow, listed, current,
                   restOfEngine>>

\* CreateIssue going on to the comments when issuesyncjira.CreateIssue fails
CreateIssue_Create_ErrorIgnored ==
    /\ pc = "create"
    /\ \E o \in Outcomes :
          LET fields == MapFields(strategy, ghIssues[cursor]).fields
              key == Len(jira) + 1
              ev == <<Ev("createIssue", IF o = "ok" THEN key ELSE 0, o)>>
          IN  /\ failures' = failures + Failed(o)
              /\ jira' = IF o = "ok"
                         THEN Append(jira, StoredTicket(key, InitialStatus, fields))
                         ELSE jira
              /\ CASE o = "ok" ->
                        /\ current' = BareIssue(key)
                        /\ log' = log \o ev
                        /\ pc' = IF ghIssues[cursor].card.present
                                 THEN "transition" ELSE "refetch"
                        /\ UNCHANGED <<cursor, fn>>
                   [] getErrorBody(o) = "panic" ->
                        /\ Panics(ev)
                        /\ UNCHANGED current
                   [] OTHER ->
                        /\ log' = log \o ev
                        /\ pc' = "comments"
                        /\ UNCHANGED <<cursor, fn, current>>
    /\ UNCHANGED <<strategy, ghIssues, workflow, listed, restOfEngine>>

\* CreateIssue up to the return of issuesyncjira.CreateIssue
CreateIssue_Create ==
    /\ pc = "create"
    /\ \E o \in Outcomes :
          LET fields == MapFields(strategy, ghIssues[cursor]).fields
              key == Len(jira) + 1
              ev == <<Ev("createIssue", IF o = "ok" THEN key ELSE 0, o)>>
          IN  /\ failures' = failures + Failed(o)
              /\ jira' = IF o = "ok"
                         THEN Append(jira, StoredTicket(key, InitialStatus, fields))
                         ELSE jira
              /\ CASE o = "ok" ->
                        /\ current' = BareIssue(key)
                        /\ log' = log \o ev
                        /\ pc' = IF ghIssues[cursor].card.present
                                 THEN "transition" ELSE "refetch"
                        /\ UNCHANGED <<cursor, fn>>
                   [] getErrorBody(o) = "panic" ->
                        /\ Panics(ev)
                        /\ UNCHANGED current
                   [] OTHER ->
                        /\ ReturnErr(ev, "err")
                        /\ UNCHANGED current
    /\ UNCHANGED <<strategy, ghIssues, workflow, listed, restOfEngine>>

\* issuesyncjira.GetIssue called by UpdateIssue and CreateIssue
GetIssue ==
    /\ pc = "refetch"
    /\ \E o \in Outcomes :
          LET ev == <<Ev("getIssue", current.key, o)>>
          IN  /\ failures' = failures + Failed(o)
              /\ CASE o = "ok" ->
                        /\ current' = DecodeIssue(jira[current.key])
                        /\ log' = log \o ev
                        /\ pc' = "comments"
                        /\ UNCHANGED <<cursor, fn>>
                   [] getErrorBody(o) = "panic" ->
                        /\ Panics(ev)
                        /\ UNCHANGED current
                   [] OTHER ->
                        /\ ReturnErr(ev, "err")
                        /\ UNCHANGED current
    /\ UNCHANGED <<strategy, ghIssues, jira, workflow, listed, restOfEngine>>

\* the call of CompareComments that ends UpdateIssue and CreateIssue, with the
\* ticket just fetched
CompareComments ==
    /\ pc = "comments"
    /\ \E o \in Outcomes \ {"errNoResp"} :
          LET ev == <<Ev("CompareComments", current.key, o)>>
          IN  /\ failures' = failures + Failed(o)
              /\ IF o = "ok"
                 THEN /\ log' = log \o ev
                      /\ cursor' = cursor + 1
                      /\ pc' = "loop"
                      /\ fn' = "none"
                 ELSE ReturnErr(ev, "err")
    /\ UNCHANGED <<strategy, ghIssues, jira, workflow, listed, current,
                   restOfEngine>>

Next ==
    \/ CompareIssues_ListIssues
    \/ CompareIssues_Match
    \/ UpdateIssue_DidIssueChange
    \/ TryApplyTransition
    \/ UpdateIssue_Write
    \/ CreateIssue_Create
    \/ GetIssue
    \/ CompareComments

Spec == Init /\ [][Next]_vars

\* a run over source issues whose identifiers are 2^53, 2^53 + 1, ..
InitBigIds ==
    /\ strategy \in Strategies
    /\ workflow \in Workflows
    /\ \E n \in 0..MaxIssues : \E cases \in [1..n -> EngineCases] :
          /\ ghIssues = [i \in 1..n |-> BigIssue(i, cases[i], "title")]
          /\ jira = BigProject(strategy, cases)
    /\ listed = <<>>
    /\ cursor = 0
    /\ pc = "start"
    /\ fn = "none"
    /\ current = BareIssue(0)
    /\ log = <<>>
    /\ failures = 0
    /\ OthersIdle("engine")

SpecBigIds == InitBigIds /\ [][Next]_vars

-----------------------------------------------------------------------------
(* Claims about the engine (checked under Spec) *)

\* the GitHub ID a stored ticket carries, as far as the project's data goes
StoredSourceId(s, t) ==
    IF s = "default"
    THEN IF /\ GetCompleteFieldKey(s, GitHubID) \in DOMAIN t.custom
            /\ t.custom[GetCompleteFieldKey(s, GitHubID)].k = "number"
         THEN {t.custom[GetCompleteFieldKey(s, GitHubID)].v}
         ELSE {}
    ELSE IF /\ DataField \in DOMAIN t.custom
            /\ t.custom[DataField].k = "string"
            /\ t.custom[DataField].v.k = "object"
            /\ "githubId" \in DOMAIN t.custom[DataField].v.v
            /\ t.custom[DataField].v.v["githubId"].k = "number"
         THEN {t.custom[DataField].v.v["githubId"].v}
         ELSE {}

Count(i, op) ==
    Cardinality({n \in 1..Len(log) : log[n].i = i /\ log[n].op = op})

\* no fetched ticket carries the GitHub ID of source issue i
Unmatched(i) ==
    \A n \in 1..Len(listed) :
        ghIssues[i].id \notin StoredSourceId(strategy, jira[listed[n].key])

\* C1: for every source issue for which no fetched ticket carries an equal
\* GitHub ID, UpdateIssue is never entered and no update is written; CreateIssue
\* is entered at most once and submits at most one create; once the issue has
\* been dealt with, exactly one of each has happened.
C1_UnmatchedCreatedOnce ==
    \A i \in 1..Len(ghIssues) :
        Unmatched(i) =>
            /\ Count(i, "UpdateIssue") = 0
            /\ Count(i, "updateIssue") = 0
            /\ Count(i, "CreateIssue") <= 1
            /\ Count(i, "createIssue") <= 1
            /\ cursor > i => /\ Count(i, "CreateIssue") = 1
                             /\ Count(i, "createIssue") = 1

\* a finished run that created a ticket for an unmatched issue and updated
\* the ticket of a matched one
C1_Witness ==
    /\ pc = "done"
    /\ \E i, k \in 1..Len(ghIssues) :
          /\ Unmatched(i) /\ Count(i, "createIssue") = 1
          /\ Len(jira) > Len(listed)
          /\ ~Unmatched(k) /\ Count(k, "UpdateIssue") = 1

\* the string a ticket stores for a logical field; "" when it stores none
StoredString(s, ticket, fieldKey, blobName) ==
    IF s = "default"
    THEN LET f == GetCompleteFieldKey(s, fieldKey)
         IN  IF f \in DOMAIN ticket.fields.unknowns
             THEN ticket.fields.unknowns[f].v ELSE ""
    ELSE LET doc == ticket.fields.unknowns[DataField].v.v
         IN  IF blobName \in DOMAIN doc /\ doc[blobName].k = "string"
             THEN doc[blobName].v ELSE ""

\* the commit list a ticket stores; empty when it stores none
StoredCommits(s, ticket) ==
    IF s = "default" THEN <<>>
    ELSE LET doc == ticket.fields.unknowns[DataField].v.v
         IN  IF "githubCommits" \in DOMAIN doc /\ doc["githubCommits"].k = "array"
             THEN [n \in 1..Len(doc["githubCommits"].v) |-> doc["githubCommits"].v[n].v]
             ELSE <<>>

\* every compared field of the pair is equal
PairEqual(s, ghIssue, ticket) ==
    /\ ticket.fields.summary = ghIssue.title
    /\ ticket.fields.description = ghIssue.body
    /\ StoredString(s, ticket, GitHubStatus, "githubStatus") = ghIssue.state
    /\ StoredString(s, ticket, GitHubReporter, "githubReporter") = ghIssue.login
    /\ StoredString(s, ticket, GitHubLabels, "githubLabels") = Join(ghIssue.labels)
    /\ StoredCommits(s, ticket) = ghIssue.commitIds.elems
    /\ ghIssue.card.present =>
          ToLower(ticket.fields.status) = ToLower(ghIssue.card.column)

\* C2: once UpdateIssue has compared a matched pair whose compared fields are
\* all equal, DidIssueChange has returned false and UpdateIssue stands at the
\* re-fetch, having written no update and asked for no transition.
C2_EqualPairNotWritten ==
    (/\ fn = "UpdateIssue"
     /\ pc \in {"transition", "write", "refetch"}
     /\ PairEqual(strategy, ghIssues[cursor], current))
    => /\ pc = "refetch"
       /\ log[Len(log)].op = "DidIssueChange"
       /\ log[Len(log)].res = "false"

\* C3: a failed remote call made for a source issue never ends the run by a
\* panic.
C3_FailureNeverAborts ==
    \A n \in 1..Len(log) :
        (log[n].i >= 1 /\ log[n].res \in {"err", "errNoResp"}) => pc # "panicked"

NoTransitionTo(status, column) ==
    \A n \in 1..Len(workflow[status]) :
        ToLower(workflow[status][n].to) # ToLower(column)

\* C4: after a successful create for a source issue with a board column, the
\* project holds the ticket with the mapped fields, and the next call asks for
\* the ticket's transitions; if none of those leads to the column's status,
\* the error is logged for the issue, the ticket stays as created and the run
\* has gone on to the next source issue.
C4_CreatedDespiteNoTransition ==
    \A n \in 1..Len(log) :
        (/\ log[n].op = "createIssue" /\ log[n].res = "ok"
         /\ ghIssues[log[n].i].card.present)
        => /\ jira[log[n].key] =
                 StoredTicket(log[n].key, jira[log[n].key].status,
                              MapFields(strategy, ghIssues[log[n].i]).fields)
           /\ IF n = Len(log)
              THEN pc = "transition" /\ cursor = log[n].i
              ELSE /\ log[n + 1].op = "getTransitions"
                   /\ log[n + 1].key = log[n].key
                   /\ (/\ log[n + 1].res = "ok"
                       /\ NoTransitionTo(InitialStatus, ghIssues[log[n].i].card.column))
                      => /\ n + 2 <= Len(log)
                         /\ log[n + 2] = [op |-> "log.Errorf", i |-> log[n].i,
                                          key |-> log[n].key,
                                          res |-> "noSuchTransition"]
                         /\ jira[log[n].key].status = InitialStatus
                         /\ cursor > log[n].i

\* a finished run in which the first of two issues was unmatched with column
\* "Backlog", the workflow offered transitions but none to it, the error was
\* logged and the second issue was still dealt with
C4_Witness ==
    /\ pc = "done" /\ Len(ghIssues) = 2
    /\ Unmatched(1) /\ ghIssues[1].card = Card("Backlog")
    /\ workflow = WorkflowFull
    /\ \E n \in 1..Len(log) :
          log[n] = [op |-> "log.Errorf", i |-> 1, key |-> Len(listed) + 1,
                    res |-> "noSuchTransition"]
    /\ jira[Len(listed) + 1].summary = ghIssues[1].title
    /\ Count(2, "CompareComments") = 1

\* C5: whenever UpdateIssue asks for a ticket's transitions, the update of
\* that ticket has been written before.
C5_WriteBeforeTransition ==
    \A n \in 1..Len(log) :
        (log[n].op = "getTransitions" /\ Count(log[n].i, "UpdateIssue") = 1)
        => \E m \in 1..(n - 1) :
              /\ log[m].op = "updateIssue" /\ log[m].res = "ok"
              /\ log[m].i = log[n].i

\* C6: when DidIssueChange has returned false for a matched pair, UpdateIssue
\* writes no update and asks for no transition; its next call fetches the
\* ticket by key, and after a successful fetch it calls CompareComments with
\* the ticket as fetched.
C6_UnchangedStillReconcilesComments ==
    \A n \in 1..Len(log) :
        (log[n].op = "DidIssueChange" /\ log[n].res = "false")
        => /\ Count(log[n].i, "updateIssue") = 0
           /\ Count(log[n].i, "getTransitions") = 0
           /\ Count(log[n].i, "applyTransition") = 0
           /\ IF n = Len(log)
              THEN pc = "refetch" /\ cursor = log[n].i
              ELSE /\ log[n + 1].op = "getIssue"
                   /\ log[n + 1].key = log[n].key
                   /\ log[n + 1].res = "ok" =>
                         IF n + 1 = Len(log)
                         THEN /\ pc = "comments"
                              /\ current = DecodeIssue(jira[log[n].key])
                         ELSE /\ log[n + 2].op = "CompareComments"
                              /\ log[n + 2].key = log[n].key

\* a finished run in which an unchanged pair with a board column was neither
\* written nor transitioned, and was re-fetched and had its comments reconciled
C6_Witness ==
    /\ pc = "done"
    /\ \E n \in 1..Len(log) :
          /\ log[n].op = "DidIssueChange" /\ log[n].res = "false"
          /\ ghIssues[log[n].i].card.present
          /\ Count(log[n].i, "updateIssue") = 0
          /\ Count(log[n].i, "getIssue") = 1
          /\ Count(log[n].i, "CompareComments") = 1

-----------------------------------------------------------------------------
(* Claims about the field mappers (checked under SpecMapper) *)

\* the blob of the harness ticket parses to a JSON object
BlobParses ==
    /\ DataField \in DOMAIN mTicket.fields.unknowns
    /\ mTicket.fields.unknowns[DataField].k = "string"
    /\ mTicket.fields.unknowns[DataField].v.k = "object"

\* the parsed blob of the harness ticket has no commits key, or null for it
BlobLacksCommits ==
    LET doc == mTicket.fields.unknowns[DataField].v.v
    IN  \/ "githubCommits" \notin DOMAIN doc
        \/ doc["githubCommits"] = JNull

\* C7: for both mapping strategies, GetFieldValue(GitHubID) on a ticket whose
\* fields are MapFields(issue) returns exactly issue.id, without error.
C7_SourceIdRoundTrip ==
    (mpc = "mapped" /\ mKey = GitHubID) => mResult = Ok(GoInt64(mIssue.id))

\* C8: under the blob strategy, GetFieldValue(GitHubCommits) on a ticket whose
\* blob parses but has no commits key (or null for it) returns the empty list
\* and no error.
C8_CommitsDefaultEmpty ==
    (strategy = "json" /\ mpc = "fetched" /\ mKey = GitHubCommits
        /\ BlobParses /\ BlobLacksCommits)
    => mResult = Ok(GoSlice(<<>>))

\* a blob without the commits key has been read for GitHubCommits
C8_Witness ==
    /\ strategy = "json" /\ mpc = "fetched" /\ mKey = GitHubCommits
    /\ BlobParses
    /\ "githubCommits" \notin DOMAIN mTicket.fields.unknowns[DataField].v.v
    /\ "githubId" \in DOMAIN mTicket.fields.unknowns[DataField].v.v
    /\ mResult.st = "ok"

-----------------------------------------------------------------------------
(* Claims about ListIssues (checked under SpecList) *)

IdSet(ids) == {ids[i] : i \in 1..Len(ids)}

\* the project's tickets whose GitHub ID is one of ids, in project order
RECURSIVE TicketsWithIdIn(_, _, _)
TicketsWithIdIn(s, project, idset) ==
    IF project = <<>> THEN <<>>
    ELSE IF StoredSourceId(s, Head(project)) \cap idset # {}
         THEN <<DecodeIssue(Head(project))>> \o TicketsWithIdIn(s, Tail(project), idset)
         ELSE TicketsWithIdIn(s, Tail(project), idset)

\* C10: whichever path ListIssues takes, a successful call returns exactly the
\* project's tickets whose GitHub ID is in the set of the given identifiers.
C10_SameResultOnBothPaths ==
    (lpc = "done" /\ lOut.st = "ok") =>
        lOut.issues = TicketsWithIdIn(strategy, lProject, IdSet(lIds))

\* the client-side path of the direct-field mapper kept one ticket and
\* dropped another, for an identifier list with repeated identifiers
C10_Witness ==
    /\ lpc = "done" /\ lOut.st = "ok" /\ strategy = "default"
    /\ lOut.clientSide
    /\ Cardinality(IdSet(lIds)) < Len(lIds)
    /\ Len(lOut.issues) = 1 /\ Len(lProject) = 2

\* the search result's tickets whose GitHub ID the field mapper reads (without
\* error) as one of ids: each once, in search-result order
RECURSIVE ReadableWithIdIn(_, _, _)
ReadableWithIdIn(s, found, idset) ==
    IF found = <<>> THEN <<>>
    ELSE IF /\ GetFieldValue(s, Head(found), GitHubID).st = "ok"
            /\ GetFieldValue(s, Head(found), GitHubID).val.v \in idset
         THEN <<Head(found)>> \o ReadableWithIdIn(s, Tail(found), idset)
         ELSE ReadableWithIdIn(s, Tail(found), idset)

AllTickets == [filtered |-> FALSE, field |-> "", ids |-> <<>>]

\* C11: on the client-side path ListIssues returns, without failing, exactly
\* the tickets of the search result whose GitHub ID is read as one of the given
\* identifiers: each once, in search-result order, the others left out.
C11_ClientSideFilter ==
    (lpc = "done" /\ lOut.clientSide) =>
        /\ lOut.st = "ok"
        /\ lOut.issues =
               ReadableWithIdIn(strategy, searchIssues(lProject, AllTickets),
                                IdSet(lIds))

-----------------------------------------------------------------------------
(* Transition harness: TryApplyTransitionWithStatusName applied to samples *)

MaxTransitions == 3

\* transitions a workflow may offer; two of them lead to the same status
TransitionPool ==
    {[id |-> "11", to |-> "In Progress"], [id |-> "12", to |-> "IN PROGRESS"],
     [id |-> "13", to |-> "Done"], [id |-> "14", to |-> "Open"]}

\* a fetched ticket in a given status, a ticket without status, and a
\* jira.Issue without Fields
TransitionIssues ==
    {DecodeIssue(StoredTicket(1, st, MapFields("default", ListIssue(1)).fields)) :
        st \in {"Open", "In Progress"}}
    \cup {[key |-> 1, hasFields |-> TRUE,
           fields |-> MapFields("default", ListIssue(1)).fields],
          BareIssue(1)}

TransInit ==
    /\ strategy = "default"
    /\ tIssue \in TransitionIssues
    /\ tName \in {"In Progress", "IN PROGRESS", "Done", "Backlog"}
    /\ tTransitions \in UNION {[1..n -> TransitionPool] : n \in 0..MaxTransitions}
    /\ tOut = NoTransitionOutput
    /\ tpc = "call"
    /\ OthersIdle("transition")

T_TryApplyTransition ==
    /\ tpc = "call"
    /\ \E oList \in RemoteOutcomes, oApply \in RemoteOutcomes :
       \E r \in {TryApplyTransitionWithStatusName(tIssue, tName, tTransitions,
                                                  oList, oApply)} :
          /\ Len(r.calls) < 1 => oList = "ok"
          /\ Len(r.calls) < 2 => oApply = "ok"
          /\ tOut' = r
    /\ tpc' = "done"
    /\ UNCHANGED <<strategy, tIssue, tName, tTransitions, restOfTrans>>

TransNext == T_TryApplyTransition

SpecTransition == TransInit /\ [][TransNext]_vars

-----------------------------------------------------------------------------
(* Claims about TryApplyTransitionWithStatusName (checked under SpecTransition) *)

HasStatus(issue) == issue.hasFields /\ issue.fields.hasStatus

\* the ticket's current status is the desired one, ignoring case
InTargetStatus ==
    HasStatus(tIssue) /\ ToLower(tIssue.fields.status) = ToLower(tName)

\* the positions of the listed transitions that lead to the desired status
Leading == {n \in 1..Len(tTransitions) : ToLower(tTransitions[n].to) = ToLower(tName)}

\* C12: for a ticket whose status name is the desired name ignoring case the
\* call returns nil, having listed no transitions and applied none.
C12_NoOpWhenInTargetStatus ==
    (tpc = "done" /\ InTargetStatus) =>
        tOut = [calls |-> <<>>, applied |-> 0, ret |-> "nil"]

\* a ticket in status "In Progress", desired "IN PROGRESS", with a transition
\* to that status on offer: nothing called
C12_Witness ==
    /\ tpc = "done" /\ InTargetStatus
    /\ tIssue.fields.status # tName
    /\ Leading # {}
    /\ tOut.calls = <<>> /\ tOut.ret = "nil"

\* C13: when the ticket is not in the desired status, the transitions are
\* listed and one of them leads to it, the first such one in listed order is
\* applied, by one applyTransition call, and the call returns nil.
C13_FirstMatchingTransitionApplied ==
    (/\ tpc = "done" /\ ~InTargetStatus /\ Leading # {}
     /\ tOut.ret \notin {"err", "panic"})
    => /\ tOut.calls = <<"getTransitions", "applyTransition">>
       /\ tOut.ret = "nil"
       /\ tOut.applied \in Leading
       /\ \A n \in Leading : tOut.applied <= n

\* two transitions lead to the desired status, after one that does not; the
\* second listed one, whose name differs in case, was applied
C13_Witness ==
    /\ tpc = "done" /\ tOut.ret = "nil"
    /\ HasStatus(tIssue) /\ ~InTargetStatus
    /\ Leading = {2, 3}
    /\ tTransitions[2].to # tName
    /\ tTransitions[2].id # tTransitions[3].id
    /\ tOut.applied = 2

\* C14: when the ticket is not in the desired status and none of the listed
\* transitions leads to it, no transition is applied and the call returns
\* the NoSuchTransition error.
C14_NoSuchTransition ==
    (/\ tpc = "done" /\ ~InTargetStatus /\ Leading = {}
     /\ tOut.ret \notin {"err", "panic"})
    => tOut = [calls |-> <<"getTransitions">>, applied |-> 0,
               ret |-> "noSuchTransition"]

\* transitions to other statuses are on offer, none to the desired one
C14_Witness ==
    /\ tpc = "done" /\ ~InTargetStatus /\ Leading = {}
    /\ Len(tTransitions) = 2
    /\ tOut.ret = "noSuchTransition" /\ tOut.applied = 0

-----------------------------------------------------------------------------
(* utils.Retry: the operation f retried with exponential backoff *)

MaxTimeout == 3

MaxStep == 2

\* what the n-th invocation of f returns
Invocation(n, ok) == [ret |-> n, res |-> n, err |-> IF ok THEN 0 ELSE n]

\* b.NextBackOff() giving backoff.Stop right after the first failure
NextBackOffStops_AtOnce(elapsed, timeout) == TRUE

\* b.NextBackOff() giving backoff.Stop as soon as the elapsed time reaches
\* MaxElapsedTime
NextBackOffStops_AtTimeout(elapsed, timeout) == elapsed >= timeout

\* b.NextBackOff() gives backoff.Stop: the elapsed time is over MaxElapsedTime
NextBackOffStops(elapsed, timeout) == elapsed > timeout

\* the remote calls of a run, and whether the code passes them to utils.Retry
CallSites ==
    {"searchIssues", "getIssue", "createIssue", "updateIssue", "addComment",
     "updateComment", "getTransitions", "applyTransition",
     "listByRepo", "listIssueEvents", "listComments", "getUser", "getRepository"}

Wrapped(site) == site \notin {"getTransitions", "applyTransition", "getRepository"}

RetryInit ==
    /\ strategy = "default"
    /\ rSite \in {site \in CallSites : Wrapped(site)}
    /\ rTimeout \in 1..MaxTimeout
    /\ rElapsed = 0
    /\ rHist = <<>>
    /\ rLast = NoValues
    /\ rResult = NoValues
    /\ rpc = "call"
    /\ OthersIdle("retry")

\* op: ret, res, err = f(); RetryNotify returns nil when err is nil
R_Invoke ==
    /\ rpc = "call"
    /\ Wrapped(rSite)
    /\ \E ok \in BOOLEAN, dt \in 0..MaxStep :
          /\ rElapsed' = rElapsed + dt
          /\ rLast' = Invocation(Len(rHist) + 1, ok)
          /\ rHist' = Append(rHist, [ok |-> ok, at |-> rElapsed + dt])
          /\ IF ok
             THEN /\ rResult' = [Invocation(Len(rHist) + 1, ok) EXCEPT !.err = 0]
                  /\ rpc' = "returned"
             ELSE /\ rpc' = "failed"
                  /\ UNCHANGED rResult
    /\ UNCHANGED <<strategy, rTimeout, rSite, restOfRetry>>

\* after a failure: RetryNotify asks for the next interval, returns the error
\* on Stop, else notifies and sleeps; Retry returns ret, res, backoffErr
R_BackOff ==
    /\ rpc = "failed"
    /\ IF NextBackOffStops(rElapsed, rTimeout)
       THEN /\ rResult' = rLast
            /\ rpc' = "returned"
            /\ UNCHANGED rElapsed
       ELSE /\ \E dt \in 1..MaxStep : rElapsed' = rElapsed + dt
            /\ rpc' = "call"
            /\ UNCHANGED rResult
    /\ UNCHANGED <<strategy, rTimeout, rHist, rLast, rSite, restOfRetry>>

RetryNext == R_Invoke \/ R_BackOff

SpecRetry == RetryInit /\ [][RetryNext]_vars

\* the program keeps running until Retry returns
SpecRetryLive == SpecRetry /\ WF_vars(RetryNext)

-----------------------------------------------------------------------------
(* Remote calls: through Retry, or made directly *)

CallInit ==
    /\ strategy = "default"
    /\ rSite \in CallSites
    /\ rTimeout \in 1..MaxTimeout
    /\ rElapsed = 0
    /\ rHist = <<>>
    /\ rLast = NoValues
    /\ rResult = NoValues
    /\ rpc = "call"
    /\ OthersIdle("retry")

\* a call made without Retry: what the one invocation returns is what the
\* caller gets
R_Direct ==
    /\ rpc = "call"
    /\ ~Wrapped(rSite)
    /\ \E ok \in BOOLEAN, dt \in 0..MaxStep :
          /\ rElapsed' = rElapsed + dt
          /\ rLast' = Invocation(1, ok)
          /\ rHist' = Append(rHist, [ok |-> ok, at |-> rElapsed + dt])
          /\ rResult' = Invocation(1, ok)
    /\ rpc' = "returned"
    /\ UNCHANGED <<strategy, rTimeout, rSite, restOfRetry>>

CallNext == R_Invoke \/ R_BackOff \/ R_Direct

SpecCalls == CallInit /\ [][CallNext]_vars

\* C17: whatever the remote call, its caller gets an error only after an
\* invocation has failed with the timeout exceeded; a failure within the
\* timeout is retried.
C17_EveryCallRetried ==
    (rpc = "returned" /\ rResult.err # 0) => rHist[Len(rHist)].at > rTimeout

-----------------------------------------------------------------------------
(* Claims about Retry (checked under SpecRetry and SpecRetryLive) *)

\* C15: f is not invoked again after an invocation that succeeded; when the
\* last invocation succeeded, Retry has returned that invocation's values with
\* a nil error; and while an invocation fails within the timeout Retry does not
\* return, so the failure is not seen by the caller.
C15_SuccessAfterFailures ==
    /\ \A n \in 1..(Len(rHist) - 1) : ~rHist[n].ok
    /\ (rHist # <<>> /\ rHist[Len(rHist)].ok) =>
          /\ rpc = "returned"
          /\ rResult = [ret |-> Len(rHist), res |-> Len(rHist), err |-> 0]
    /\ (rpc = "returned" /\ rHist[Len(rHist)].at <= rTimeout) =>
          rHist[Len(rHist)].ok

\* three failures, then a success within the timeout: returned without error
C15_Witness ==
    /\ rpc = "returned"
    /\ Len(rHist) = 4 /\ rHist[4].ok /\ ~rHist[3].ok
    /\ rElapsed <= rTimeout
    /\ rResult.err = 0 /\ rResult.ret = 4

\* what C16 says of every state
C16_Safe ==
    /\ rpc = "returned" => Len(rHist) >= 1
    /\ rpc # "call" => (Len(rHist) >= 1 /\ rHist[1].at <= MaxStep)
    /\ \A n \in 1..(Len(rHist) - 1) : rHist[n].at <= rTimeout
    /\ (rpc = "returned" /\ ~rHist[Len(rHist)].ok) =>
          /\ rHist[Len(rHist)].at > rTimeout
          /\ rResult = [ret |-> Len(rHist), res |-> Len(rHist),
                        err |-> Len(rHist)]

-----------------------------------------------------------------------------
(* The source collector: issuesyncgithub.ListIssues *)

MaxPages == 3
MaxPerPage == 2

\* a github.IssueEvent: its Event, its ProjectCard (NoCard for nil) and its
\* CommitID ("nil" for nil)
IssueEvent(event, card, commit) == [event |-> event, card |-> card, commit |-> commit]

\* what listIssueEvents answers for the pages of issue `number`: the events
\* of the page and the response's LastPage
EventPagesOf(number) ==
    IF number % 4 = 3
    THEN \* the request for the second page fails
         <<[events |-> <<IssueEvent("added_to_project", Card("Open"), "nil"),
                         IssueEvent("referenced", NoCard, "c1")>>,
            last |-> 2],
           [events |-> <<>>, last |-> 0, fails |-> TRUE]>>
    ELSE IF number % 2 = 1
    THEN <<[events |-> <<IssueEvent("added_to_project", Card("Open"), "nil")>>,
            last |-> 2],
           [events |-> <<IssueEvent("moved_columns_in_project", Card("In Progress"), "nil"),
                         IssueEvent("referenced", NoCard, "c1")>>,
            last |-> 0]>>
    ELSE <<[events |-> <<>>, last |-> 0]>>

EmptyPage == [events |-> <<>>, last |-> 0]

\* CardAfter without the clearing by "removed_from_project"
CardAfter_KeepOnRemove(card, v) ==
    IF v.card.present /\ v.event \in {"added_to_project", "moved_columns_in_project"}
    THEN v.card
    ELSE card

CardAfter(card, v) ==
    IF v.card.present
    THEN IF v.event \in {"added_to_project", "moved_columns_in_project"} THEN v.card
         ELSE IF v.event = "removed_from_project" THEN NoCard
         ELSE card
    ELSE card

\* CommitsAfter appending a commit only the first time it is seen
CommitsAfter_NoDuplicates(commits, v) ==
    IF v.commit # "nil" /\ \A n \in 1..Len(commits.elems) : commits.elems[n] # v.commit
    THEN StrSlice(Append(commits.elems, v.commit))
    ELSE commits

CommitsAfter(commits, v) ==
    IF v.commit # "nil" THEN StrSlice(Append(commits.elems, v.commit)) ELSE commits

RECURSIVE WalkPage(_, _, _, _)
WalkPage(events, n, card, commits) ==
    IF n > Len(events) THEN [card |-> card, commits |-> commits]
    ELSE WalkPage(events, n + 1, CardAfter(card, events[n]),
                  CommitsAfter(commits, events[n]))

\* the request for this page of the events fails
PageFails(resp, page) ==
    page <= Len(resp) /\ "fails" \in DOMAIN resp[page]

\* the walk returning, when a request fails, what it has found so far
RECURSIVE WalkEvents_KeepPartial(_, _, _, _, _, _)
WalkEvents_KeepPartial(resp, up, page, pages, card, commits) ==
    IF page > pages THEN [card |-> card, commits |-> commits, err |-> "nil"]
    ELSE IF ~up \/ PageFails(resp, page) THEN [card |-> card, commits |-> commits, err |-> "err"]
    ELSE \* one page: bound once, then the loop goes on with its LastPage
         CHOOSE out \in {WalkEvents_KeepPartial(resp, up, page + 1,
                                    (IF page <= Len(resp) THEN resp[page] ELSE EmptyPage).last,
                                    w.card, w.commits) :
                         w \in {WalkPage((IF page <= Len(resp) THEN resp[page]
                                          ELSE EmptyPage).events, 1, card, commits)}} : TRUE

\* the page loop of getCurrentProjectCardAndCommitIds from `page` on: a failed
\* request returns nil, nil and the error
RECURSIVE WalkEvents(_, _, _, _, _, _)
WalkEvents(resp, up, page, pages, card, commits) ==
    IF page > pages THEN [card |-> card, commits |-> commits, err |-> "nil"]
    ELSE IF ~up \/ PageFails(resp, page) THEN [card |-> NoCard, commits |-> NilSlice, err |-> "err"]
    ELSE \* one page: bound once, then the loop goes on with its LastPage
         CHOOSE out \in {WalkEvents(resp, up, page + 1,
                                    (IF page <= Len(resp) THEN resp[page] ELSE EmptyPage).last,
                                    w.card, w.commits) :
                         w \in {WalkPage((IF page <= Len(resp) THEN resp[page]
                                          ELSE EmptyPage).events, 1, card, commits)}} : TRUE

getCurrentProjectCardAndCommitIds(resp, up) ==
    WalkEvents(resp, up, 1, 1, NoCard, NilSlice)

\* a github.Issue as listByRepo returns it: its number, and whether
\* PullRequestLinks is set
Entity(number, pr) == [number |-> number, pr |-> pr]

IsIssue(v) == ~v.pr

ExtendedGithubIssue(v, has, up) ==
    CHOOSE e \in {Issue(Small(v.number), v.number, "T", "open", <<>>, r.commits, r.card) :
                  r \in {IF has THEN getCurrentProjectCardAndCommitIds(EventPagesOf(v.number), up)
                                ELSE [card |-> NoCard, commits |-> NilSlice, err |-> "nil"]}} : TRUE

IssuePage_WithPulls(items, has, up) ==
    [k \in 1..Len(items) |-> ExtendedGithubIssue(items[k], has, up)]

\* issuePage of one iteration
IssuePage(items, has, up) ==
    [k \in 1..Len(SelectSeq(items, IsIssue)) |->
        ExtendedGithubIssue(SelectSeq(items, IsIssue)[k], has, up)]

\* the issues of a page for which getCurrentProjectCardAndCommitIds is called
EventCalls(items, has) ==
    IF has
    THEN [k \in 1..Len(SelectSeq(items, IsIssue)) |-> SelectSeq(items, IsIssue)[k].number]
    ELSE <<>>

AppendPage_Before(issues, issuePage) == issuePage \o issues

AppendPage(issues, issuePage) == issues \o issuePage

\* the pages the server may answer: up to MaxPerPage entities, of which at
\* most one, at any position, is a pull request
PageShapes ==
    UNION {{[k \in 1..n |-> k = pull] : pull \in 0..n} : n \in 0..MaxPerPage}

PageItems(page, shape) ==
    [k \in 1..Len(shape) |-> Entity((page - 1) * MaxPerPage + k, shape[k])]

SourceInit ==
    /\ strategy = "default"
    /\ gHas = FALSE
    /\ gEventsUp = FALSE
    /\ gPage = 0
    /\ gLimit = 0
    /\ gIssues = <<>>
    /\ gReq = <<>>
    /\ gResult = NoSourceResult
    /\ gpc = "start"
    /\ OthersIdle("source")

\* repo, _, _ := g.getRepository(...); pages := 1; var issues
G_GetRepository ==
    /\ gpc = "start"
    /\ \E outcome \in {"ok", "err"}, has \in BOOLEAN, up \in BOOLEAN :
          /\ gHas' = (outcome = "ok" /\ has)
          \* the events are listed only for a repository with projects
          /\ gEventsUp' = (outcome = "ok" /\ has /\ up)
    /\ gPage' = 1
    /\ gLimit' = 1
    /\ gpc' = "loop"
    /\ UNCHANGED <<strategy, gIssues, gReq, gResult, restOfSource>>

\* one iteration of the page loop
G_ListByRepo ==
    /\ gpc = "loop"
    /\ gPage <= gLimit
    /\ \E outcome \in {"ok", "err"}, shape \in PageShapes, last \in 0..MaxPages :
          IF outcome = "err"
          THEN /\ shape = <<>> /\ last = 0
               /\ gReq' = Append(gReq, [page |-> gPage, ok |-> FALSE,
                                        items |-> <<>>, last |-> 0,
                                        walked |-> <<>>])
               /\ gResult' = [issues |-> <<>>, err |-> "err"]
               /\ gpc' = "returned"
               /\ UNCHANGED <<gPage, gLimit, gIssues>>
          ELSE /\ gReq' = Append(gReq, [page |-> gPage, ok |-> TRUE,
                                        items |-> PageItems(gPage, shape),
                                        last |-> last,
                                        walked |-> EventCalls(PageItems(gPage, shape),
                                                              gHas)])
               /\ gIssues' = AppendPage(gIssues,
                                 IssuePage(PageItems(gPage, shape), gHas, gEventsUp))
               /\ gLimit' = last
               /\ gPage' = gPage + 1
               /\ UNCHANGED <<gResult, gpc>>
    /\ UNCHANGED <<strategy, gHas, gEventsUp, restOfSource>>

\* the loop is over: return issues, nil
G_Return ==
    /\ gpc = "loop"
    /\ gPage > gLimit
    /\ gResult' = [issues |-> gIssues, err |-> "nil"]
    /\ gpc' = "returned"
    /\ UNCHANGED <<strategy, gHas, gEventsUp, gPage, gLimit, gIssues, gReq, restOfSource>>

SourceNext == G_GetRepository \/ G_ListByRepo \/ G_Return

SpecSource == SourceInit /\ [][SourceNext]_vars

-----------------------------------------------------------------------------
(* Claims about the source collector (checked under SpecSource) *)

Returned == gpc = "returned" /\ gResult.err = "nil"

Numbers(issues) == [k \in 1..Len(issues) |-> issues[k].number]

\* the numbers of the issues, pull requests left out, of the first n
\* responses, in page order and in-page order
RECURSIVE RetainedUpTo(_)
RetainedUpTo(n) ==
    IF n = 0 THEN <<>>
    ELSE RetainedUpTo(n - 1) \o Numbers(SelectSeq(gReq[n].items, LAMBDA v : ~v.pr))

\* C18: the pages requested are 1, 2, ... in order, each once; a further
\* page is requested exactly while its number does not exceed the LastPage
\* of the response before it; and what is returned is the retained issues of
\* all those pages, in page order and in-page order.
C18_PagesInOrderConcatenated ==
    /\ \A k \in 1..Len(gReq) : gReq[k].page = k
    /\ \A k \in 1..(Len(gReq) - 1) : k + 1 <= gReq[k].last
    /\ Returned =>
          /\ Len(gReq) >= 1
          /\ Len(gReq) + 1 > gReq[Len(gReq)].last
          /\ Numbers(gResult.issues) = RetainedUpTo(Len(gReq))

C18_Witness ==
    /\ Returned
    /\ Len(gReq) = MaxPages
    /\ \A k \in 1..MaxPages :
          Len(gReq[k].items) = MaxPerPage /\ \A n \in 1..MaxPerPage : ~gReq[k].items[n].pr
    /\ Len(gResult.issues) = MaxPages * MaxPerPage

\* the entities the server has listed so far
Listed == UNION {{gReq[k].items[n] : n \in 1..Len(gReq[k].items)} : k \in 1..Len(gReq)}

\* C19: no entity with pull-request links is among the issues returned, and
\* every listed entity without them is.
C19_PullRequestsLeftOut ==
    Returned =>
        /\ \A v \in Listed : v.pr => \A k \in 1..Len(gResult.issues) :
                                        gResult.issues[k].number # v.number
        /\ \A v \in Listed : ~v.pr => \E k \in 1..Len(gResult.issues) :
                                        gResult.issues[k].number = v.number

C19_Witness ==
    /\ Returned
    /\ \E v \in Listed : v.pr
    /\ \E v \in Listed : ~v.pr
    /\ Len(gResult.issues) >= 2

-----------------------------------------------------------------------------
(* The JIRA clients: realJIRAClient and dryrunJIRAClient *)

MaxCalls == 3

\* NewClient: a dryrunJIRAClient if config.IsDryRun(), else a realJIRAClient
ClientInit ==
    /\ strategy = "default"
    /\ cDry \in BOOLEAN
    /\ cCalls = <<>>
    /\ cRemote = <<>>
    /\ OthersIdle("client")

\* the call is handed to j.client: a request reaches the service, and what
\* the service answers is returned
Delegated(call, method, api) ==
    /\ Len(cCalls) < MaxCalls
    /\ \E outcome \in {"ok", "err"} :
          cCalls' = Append(cCalls, [call |-> call, method |-> method, ret |-> outcome])
    /\ cRemote' = Append(cRemote, [method |-> method, api |-> api])
    /\ UNCHANGED <<strategy, cDry, restOfClient>>

\* the call returns without a request: nil response and nil error, or a
\* panic while logging
Simulated(call, method, ret) ==
    /\ Len(cCalls) < MaxCalls
    /\ cCalls' = Append(cCalls, [call |-> call, method |-> method, ret |-> ret])
    /\ UNCHANGED <<strategy, cDry, cRemote, restOfClient>>

getTransitions == Delegated("getTransitions", "GET", "Issue.GetTransitions")

\* the dry-run client logs issue.Fields.Status.Name
applyTransition ==
    IF cDry
    THEN \E hasStatus \in BOOLEAN :
            Simulated("applyTransition", "POST", IF hasStatus THEN "ok" ELSE "panic")
    ELSE Delegated("applyTransition", "POST", "Issue.DoTransition")

clientSearchIssues == Delegated("searchIssues", "GET", "Issue.Search")

getIssue == Delegated("getIssue", "GET", "Issue.Get")

createIssue ==
    IF cDry THEN Simulated("createIssue", "POST", "ok")
    ELSE Delegated("createIssue", "POST", "Issue.Create")

updateIssue ==
    IF cDry THEN Simulated("updateIssue", "PUT", "ok")
    ELSE Delegated("updateIssue", "PUT", "Issue.Update")

addComment ==
    IF cDry THEN Simulated("addComment", "POST", "ok")
    ELSE Delegated("addComment", "POST", "Issue.AddComment")

disallowedMethods_PostOnly == {"POST"}

disallowedMethods == {"POST", "PUT"}

do ==
    \E method \in {"GET", "POST", "PUT"} :
        IF cDry /\ method \in disallowedMethods
        THEN Simulated("do", method, "ok")
        ELSE Delegated("do", method, "Do")

ClientNext ==
    \/ getTransitions
    \/ applyTransition
    \/ clientSearchIssues
    \/ getIssue
    \/ createIssue
    \/ updateIssue
    \/ addComment
    \/ do

SpecClient == ClientInit /\ [][ClientNext]_vars

-----------------------------------------------------------------------------
(* Claims about the clients (checked under SpecClient) *)

IsRead(c) == c.method = "GET"

\* C20: with the dry-run client no POST or PUT request, so no create, update,
\* comment or transition, reaches the service, whatever calls are made; and
\* with either client every search, get-by-key and list-transitions call, and
\* every GET, is one request to the service, in the order of the calls.
C20_DryRunWritesNothing ==
    /\ cDry => \A k \in 1..Len(cRemote) : cRemote[k].method = "GET"
    /\ LET reads == SelectSeq(cCalls, IsRead)
           sent  == SelectSeq(cRemote, IsRead)
       IN /\ Len(reads) = Len(sent)
          /\ \A k \in 1..Len(reads) :
                sent[k].api = (CASE reads[k].call = "searchIssues"   -> "Issue.Search"
                                 [] reads[k].call = "getIssue"       -> "Issue.Get"
                                 [] reads[k].call = "getTransitions" -> "Issue.GetTransitions"
                                 [] OTHER                            -> "Do")

C20_Witness ==
    /\ cDry
    /\ Len(cCalls) = MaxCalls
    /\ \E k \in 1..Len(cCalls) : cCalls[k].call \in {"createIssue", "updateIssue"}
    /\ \E k \in 1..Len(cCalls) : cCalls[k].call \in {"applyTransition", "addComment", "do"}
                                   /\ cCalls[k].method # "GET"
    /\ \E k \in 1..Len(cCalls) : cCalls[k].call = "getIssue"
    /\ Len(cRemote) = 1

-----------------------------------------------------------------------------
(* Field resolution: FieldMapper.GetFieldIDs at the start of a run *)

\* the field names the mappers look for, and one they do not
ServerFieldNames ==
    {"GitHub ID", "GitHub Number", "GitHub Labels", "GitHub Status",
     "GitHub Reporter", "Last Issue-Sync Update", "GitHub Issue Data",
     "GitHub Commits"}

\* the cases of the switch on field.Name, per mapper
FieldNameCases(s) ==
    IF s = "default"
    THEN {<<"GitHub ID", GitHubID>>, <<"GitHub Number", GitHubNumber>>,
          <<"GitHub Labels", GitHubLabels>>, <<"GitHub Status", GitHubStatus>>,
          <<"GitHub Reporter", GitHubReporter>>,
          <<"Last Issue-Sync Update", LastISUpdate>>}
    ELSE {<<"GitHub Issue Data", GitHubIssueData>>}

\* the keys looked up after the loop, in the order of the checks
FieldChecks(s) ==
    IF s = "default"
    THEN <<GitHubID, GitHubNumber, GitHubLabels, GitHubStatus, GitHubReporter,
           LastISUpdate>>
    ELSE <<GitHubIssueData>>

\* GetFieldIDs against a server listing the fields `names`: the map built,
\* and "nil", "request" (the metadata request failed) or the key the
\* error names
FieldIDsFrom(s, names, outcome) ==
    IF outcome = "err" THEN [ids |-> <<>>, err |-> "request"]
    ELSE CHOOSE r \in {[ids |-> [key \in found |-> key],
                         err |-> IF \A n \in 1..Len(FieldChecks(s)) : FieldChecks(s)[n] \in found
                                 THEN "nil"
                                 ELSE FieldChecks(s)[CHOOSE n \in 1..Len(FieldChecks(s)) :
                                         /\ FieldChecks(s)[n] \notin found
                                         /\ \A m \in 1..(n - 1) : FieldChecks(s)[m] \in found]] :
                        found \in {{c[2] : c \in {c \in FieldNameCases(s) : c[1] \in names}}}} : TRUE

ResolveInit ==
    /\ strategy \in Strategies
    /\ fServer \in SUBSET ServerFieldNames
    /\ fResult = [ids |-> <<>>, err |-> "none"]
    /\ fpc = "start"
    /\ OthersIdle("resolve")

\* NewClient: config.LoadJIRAConfig(*client), and the return on its error
F_LoadJIRAConfig ==
    /\ fpc = "start"
    /\ \E outcome \in {"ok", "err"} :
          \E r \in {FieldIDsFrom(strategy, fServer, outcome)} :
              /\ fResult' = r
              /\ fpc' = IF r.err = "nil" THEN "running" ELSE "aborted"
    /\ UNCHANGED <<strategy, fServer, restOfResolve>>

\* the run goes on to reconcile, and writes to the tracker
F_Write ==
    /\ fpc = "running"
    /\ fpc' = "wrote"
    /\ UNCHANGED <<strategy, fServer, fResult, restOfResolve>>

ResolveNext == F_LoadJIRAConfig \/ F_Write

SpecResolve == ResolveInit /\ [][ResolveNext]_vars

-----------------------------------------------------------------------------
(* Claims about field resolution (checked under SpecResolve) *)

\* the logical fields MapFields writes or the comparison reads
LogicalFields ==
    {GitHubID, GitHubNumber, GitHubStatus, GitHubReporter, GitHubLabels,
     GitHubCommits, LastISUpdate}

\* the key GetFieldIDs looks up for a logical field
PhysicalKey(key) == IF strategy = "json" THEN GitHubIssueData ELSE key

\* the key has a physical field: its own custom field, or the blob's
Resolvable(key) == PhysicalKey(key) \in DOMAIN fResult.ids

Unresolved == {key \in LogicalFields : ~Resolvable(key)}

\* C21: once resolution has run, if some logical field has no physical
\* field, resolution has returned an error (naming such a field, unless the
\* metadata request itself failed) and the run has aborted without a write.
C21_UnresolvedFieldAborts ==
    (fpc \in {"running", "aborted", "wrote"} /\ Unresolved # {}) =>
        /\ fpc = "aborted"
        /\ \/ fResult.err = "request"
           \/ \E key \in Unresolved : fResult.err = PhysicalKey(key)

-----------------------------------------------------------------------------
(* utils.SliceStringsEq on its own *)

MaxCommits == 2

CommitIds == {"c1", "c2"}

\* the []string values of up to MaxCommits elements, nil included
Slices ==
    {NilSlice} \cup {StrSlice(a) : a \in UNION {[1..n -> CommitIds] : n \in 0..MaxCommits}}

SlicesInit ==
    /\ strategy = "json"
    /\ dA \in Slices
    /\ dB \in Slices
    /\ dIssue = "none"
    /\ dTicket = "none"
    /\ dOut = "none"
    /\ dpc = "start"
    /\ OthersIdle("compare")

D_SliceStringsEq ==
    /\ dpc = "start"
    /\ dOut' = SliceStringsEq(dA, dB)
    /\ dpc' = "compared"
    /\ UNCHANGED <<strategy, dA, dB, dIssue, dTicket, restOfCompare>>

\* the same call with the arguments exchanged
D_SliceStringsEq_Exchanged ==
    /\ dpc = "start"
    /\ dOut' = SliceStringsEq(dB, dA)
    /\ dA' = dB
    /\ dB' = dA
    /\ dpc' = "compared"
    /\ UNCHANGED <<strategy, dIssue, dTicket, restOfCompare>>

SlicesNext == D_SliceStringsEq \/ D_SliceStringsEq_Exchanged

SpecSlices == SlicesInit /\ [][SlicesNext]_vars

-----------------------------------------------------------------------------
(* Claims about SliceStringsEq (checked under SpecSlices) *)

SameElements(a, b) ==
    \A c \in CommitIds :
        Cardinality({i \in 1..Len(a.elems) : a.elems[i] = c})
            = Cardinality({i \in 1..Len(b.elems) : b.elems[i] = c})

\* C22: the comparison is equality of the two lists as sequences, nil being
\* the empty list: a list equals itself, the answer does not depend on the
\* order of the arguments, lists of different length are unequal, and so are
\* lists with the same elements in a different order.
C22_OrderedEqualityNilIsEmpty ==
    dpc = "compared" =>
        /\ dOut = (dA.elems = dB.elems)
        /\ dA = dB => dOut
        /\ (dA.isNil /\ dB = StrSlice(<<>>)) => dOut
        /\ Len(dA.elems) # Len(dB.elems) => ~dOut
        /\ (SameElements(dA, dB) /\ dA.elems # dB.elems) => ~dOut

\* a nil list compared with the empty list, and a list compared with a
\* reordering of it
C22_Witness ==
    /\ dpc = "compared"
    /\ \/ dA.isNil /\ dB = StrSlice(<<>>) /\ dOut
       \/ dA = StrSlice(<<"c1", "c2">>) /\ dB = StrSlice(<<"c2", "c1">>) /\ ~dOut

-----------------------------------------------------------------------------
(* DidIssueChange and jiraCustomFieldsNeedUpdate on their own *)

ComparedIssues ==
    {Issue(Small(1), 7, "T", state, labels, commits, card) :
        state \in {"open", ""},
        labels \in {<<>>, <<"a", "b">>},
        commits \in {NilSlice, StrSlice(<<"c1", "c2">>)},
        card \in {NoCard, Card("Open")}}

\* tickets as they may be found in the project: written by MapFields from
\* the issue, then possibly edited in one field
ComparedTickets(s, issue) ==
    MapperTickets(s, issue) \cup
    (IF s = "default"
     THEN {DropCustom(t, GetCompleteFieldKey(s, key)) :
               t \in {StoredTicket(1, "Open", MapFields(s, issue).fields)},
               key \in {GitHubReporter, GitHubLabels}}
          \cup
          {SetCustom(t, GetCompleteFieldKey(s, key), j) :
               t \in {StoredTicket(1, "Open", MapFields(s, issue).fields)},
               key \in {GitHubStatus, GitHubLabels},
               j \in {JNull, JNum(Small(5))}}
     ELSE {DropBlobKey(t, name) :
               t \in {StoredTicket(1, "Open", MapFields(s, issue).fields)},
               name \in {"githubReporter", "githubLabels"}}
          \cup
          {SetBlobKey(t, name, j) :
               t \in {StoredTicket(1, "Open", MapFields(s, issue).fields)},
               name \in {"githubStatus", "githubLabels", "githubCommits"},
               j \in {JNull, JNum(Small(5)), JStr("c1")}})

\* the workflow statuses a ticket may be found in
TicketStatuses == {"Open", "open", "Done"}

\* the source value DidIssueChange passes for a string field
SourceValue(ghIssue, key) ==
    CASE key = GitHubStatus   -> ghIssue.state
      [] key = GitHubReporter -> ghIssue.login
      [] key = GitHubLabels   -> Join(ghIssue.labels)

NoComparison == [fn |-> "none", key |-> "none", ret |-> "none"]

DidChangeInit ==
    /\ strategy \in Strategies
    /\ dIssue \in ComparedIssues
    /\ dTicket \in {DecodeIssue([t EXCEPT !.status = st]) :
                       t \in ComparedTickets(strategy, dIssue),
                       st \in TicketStatuses}
    /\ dA = NilSlice
    /\ dB = NilSlice
    /\ dOut = NoComparison
    /\ dpc = "start"
    /\ OthersIdle("compare")

D_DidIssueChange ==
    /\ dpc = "start"
    /\ dOut' = [fn |-> "DidIssueChange", key |-> "none",
                ret |-> DidIssueChange(strategy, dIssue, dTicket)]
    /\ dpc' = "done"
    /\ UNCHANGED <<strategy, dA, dB, dIssue, dTicket, restOfCompare>>

D_jiraCustomFieldsNeedUpdate ==
    /\ dpc = "start"
    /\ \E key \in {GitHubStatus, GitHubReporter, GitHubLabels} :
          dOut' = [fn |-> "jiraCustomFieldsNeedUpdate", key |-> key,
                   ret |-> jiraCustomFieldsNeedUpdate(strategy, dTicket, key,
                                                      SourceValue(dIssue, key))]
    /\ dpc' = "done"
    /\ UNCHANGED <<strategy, dA, dB, dIssue, dTicket, restOfCompare>>

DidChangeNext == D_DidIssueChange \/ D_jiraCustomFieldsNeedUpdate

SpecDidChange == DidChangeInit /\ [][DidChangeNext]_vars

-----------------------------------------------------------------------------
(* Claims about the comparison (checked under SpecDidChange) *)

ReadFails(key) == GetFieldValue(strategy, dTicket, key).st = "err"

\* C23: when reading the status, reporter, labels or commits of the ticket
\* returns an error, a DidIssueChange that returns returns true.
C23_ReadErrorMeansChanged ==
    (/\ dpc = "done" /\ dOut.fn = "DidIssueChange" /\ dOut.ret # "panic"
     /\ \E key \in {GitHubStatus, GitHubReporter, GitHubLabels, GitHubCommits} :
            ReadFails(key))
        => dOut.ret = "true"

\* the pair differs in nothing but a field that cannot be read
C23_Witness ==
    /\ dpc = "done" /\ dOut.fn = "DidIssueChange" /\ dOut.ret = "true"
    /\ ReadFails(GitHubStatus) /\ ReadFails(GitHubCommits)
    /\ dIssue.title = dTicket.fields.summary
    /\ dIssue.body = dTicket.fields.description
    /\ ~dIssue.card.present

-----------------------------------------------------------------------------
(* More claims about the engine (checked under Spec) *)

NoRemoteFailure(i) ==
    \A n \in 1..Len(log) : log[n].i = i => log[n].res \notin {"err", "errNoResp"}

\* C24: once the run has gone past a source issue for which a create or an
\* update was written and no remote call failed, the ticket has been fetched
\* by key after the write and CompareComments has been called after that.
C24_WrittenThenCommentsReconciled ==
    \A n \in 1..Len(log) :
        (/\ log[n].op \in {"createIssue", "updateIssue"} /\ log[n].res = "ok"
         /\ cursor > log[n].i
         /\ NoRemoteFailure(log[n].i))
        => \E m \in (n + 1)..Len(log) :
              /\ log[m].op = "getIssue" /\ log[m].i = log[n].i
              /\ log[m].key = log[n].key
              /\ \E c \in (m + 1)..Len(log) :
                    log[c].op = "CompareComments" /\ log[c].i = log[n].i

-----------------------------------------------------------------------------
(* getCurrentProjectCardAndCommitIds on its own *)

MaxEvents == 4
EventsPerPage == 2

\* the issue events of the GitHub API: those about a project card carry the
\* card, and a reference or a close may carry a commit
EventPool ==
    {IssueEvent("added_to_project", Card("Open"), "nil"),
     IssueEvent("moved_columns_in_project", Card("In Progress"), "nil"),
     IssueEvent("removed_from_project", Card("In Progress"), "nil"),
     IssueEvent("converted_note_to_issue", Card("Done"), "nil"),
     IssueEvent("referenced", NoCard, "c1"),
     IssueEvent("closed", NoCard, "c2"),
     IssueEvent("labeled", NoCard, "nil")}

\* the number of pages the server has for a history, at least one
PageCount(history) ==
    IF Len(history) = 0 THEN 1
    ELSE (Len(history) + EventsPerPage - 1) \div EventsPerPage

\* the pages listIssueEvents answers: EventsPerPage events a page, and a
\* LastPage that is the last page's number, or 0 on the last page itself
\* when the server reports it so
EventPages(history, style) ==
    [k \in 1..PageCount(history) |->
        [events |-> SubSeq(history, (k - 1) * EventsPerPage + 1,
                           IF k * EventsPerPage < Len(history)
                           THEN k * EventsPerPage ELSE Len(history)),
         last   |-> IF style = "zeroOnLast" /\ k = PageCount(history)
                    THEN 0 ELSE PageCount(history)]]

EventsInit ==
    /\ strategy = "default"
    /\ eHistory \in UNION {[1..n -> EventPool] : n \in 0..MaxEvents}
    /\ eStyle \in {"zeroOnLast", "constant"}
    /\ eUp \in BOOLEAN
    /\ eResult = "none"
    /\ epc = "start"
    /\ OthersIdle("events")

E_getCurrentProjectCardAndCommitIds ==
    /\ epc = "start"
    /\ eResult' = getCurrentProjectCardAndCommitIds(EventPages(eHistory, eStyle), eUp)
    /\ epc' = "done"
    /\ UNCHANGED <<strategy, eHistory, eStyle, eUp, restOfEvents>>

EventsNext == E_getCurrentProjectCardAndCommitIds

SpecEvents == EventsInit /\ [][EventsNext]_vars

-----------------------------------------------------------------------------
(* Claims about the event walk (checked under SpecEvents) *)

Walked == epc = "done" /\ eResult.err = "nil"

\* the column after the first n events of the history
RECURSIVE ColumnAfter(_)
ColumnAfter(n) ==
    IF n = 0 THEN NoCard
    ELSE IF eHistory[n].event \in {"added_to_project", "moved_columns_in_project"}
         THEN eHistory[n].card
         ELSE IF eHistory[n].event = "removed_from_project" THEN NoCard
         ELSE ColumnAfter(n - 1)

\* C25: the card returned is the value, after the last event of the whole
\* history, of the fold in which an added or moved event sets the card, a
\* removed event clears it and any other event leaves it.
C25_ColumnIsFoldOfHistory ==
    Walked => eResult.card = ColumnAfter(Len(eHistory))

\* a history of two pages: set on the first, cleared and set again, or
\* cleared last, on the second
C25_Witness ==
    /\ Walked
    /\ Len(eHistory) > EventsPerPage
    /\ eHistory[1].event = "added_to_project"
    /\ \E n \in (EventsPerPage + 1)..Len(eHistory) :
          eHistory[n].event = "removed_from_project"
    /\ eResult.card = ColumnAfter(Len(eHistory))

CarriesCommit(v) == v.commit # "nil"

\* C26: the commit list returned is the commit references of the events that
\* carry one, in the order of the history, one entry for each such event.
C26_CommitsOfHistoryInOrder ==
    Walked =>
        /\ Len(eResult.commits.elems) = Len(SelectSeq(eHistory, CarriesCommit))
        /\ \A n \in 1..Len(eResult.commits.elems) :
              eResult.commits.elems[n] = SelectSeq(eHistory, CarriesCommit)[n].commit

\* the same commit referenced on two pages, with another between
C26_Witness ==
    /\ Walked
    /\ Len(eHistory) = MaxEvents
    /\ eHistory[1].commit = "c1"
    /\ eHistory[EventsPerPage].commit = "c2"
    /\ eHistory[MaxEvents].commit = "c1"
    /\ Len(eResult.commits.elems) >= 3

-----------------------------------------------------------------------------
(* More claims about the field mappers (checked under SpecMapper) *)

\* the key of the blob under which JsonFieldMapper.MapFields writes a field
BlobName(key) ==
    CASE key = GitHubID       -> "githubId"
      [] key = GitHubNumber   -> "githubNumber"
      [] key = GitHubStatus   -> "githubStatus"
      [] key = GitHubReporter -> "githubReporter"
      [] key = GitHubLabels   -> "githubLabels"
      [] key = GitHubCommits  -> "githubCommits"
      [] key = LastISUpdate   -> "lastIssueSyncUpdate"

\* the field set holds an entry for the logical field: a custom field of its
\* own with a resolved ID, or its key in the blob
Written(fields, key) ==
    IF strategy = "default"
    THEN /\ key \in DOMAIN GetFieldIDs("default")
         /\ GetCompleteFieldKey("default", key) \in DOMAIN fields.unknowns
    ELSE /\ DataField \in DOMAIN fields.unknowns
         /\ BlobName(key) \in DOMAIN fields.unknowns[DataField].v.v

\* C27: the field set MapFields returns holds an entry for every logical
\* field of the source issue.
C27_EveryLogicalFieldWritten ==
    mpc = "mapped" => \A key \in LogicalFields : Written(mTicket.fields, key)

\* the field set holds nothing for the logical field: no custom field of its
\* own, or no blob field, or a blob that parses and has not the field's key
AbsentFrom(fields, key) ==
    IF strategy = "default"
    THEN GetCompleteFieldKey("default", key) \notin DOMAIN fields.unknowns
    ELSE \/ DataField \notin DOMAIN fields.unknowns
         \/ /\ fields.unknowns[DataField].k = "string"
            /\ fields.unknowns[DataField].v.k = "object"
            /\ BlobName(key) \notin DOMAIN fields.unknowns[DataField].v.v

\* the fetched harness ticket holds nothing for the logical field
Absent(key) == AbsentFrom(mTicket.fields, key)

\* the fetched harness ticket holds, for a numeric logical field, a value that
\* is not a number
NotANumber(key) ==
    /\ key \in {GitHubID, GitHubNumber}
    /\ IF strategy = "default"
       THEN /\ ~Absent(key)
            /\ mTicket.fields.unknowns[GetCompleteFieldKey("default", key)].k
                   \notin {"float64", "int64"}
       ELSE /\ BlobParses
            /\ ~Absent(key)
            /\ mTicket.fields.unknowns[DataField].v.v[BlobName(key)].k # "float64"

\* C28: GetFieldValue on a fetched ticket returns an error when the logical
\* field is absent (the commits of the blob strategy excepted, which default
\* to the empty list) and when a numeric field holds a value that is not a
\* number.
C28_AbsentOrMistypedIsError ==
    (mpc = "fetched" /\ mKey \in LogicalFields) =>
        /\ (Absent(mKey) /\ ~(strategy = "json" /\ mKey = GitHubCommits))
               => mResult.st = "err"
        /\ NotANumber(mKey) => mResult.st = "err"

-----------------------------------------------------------------------------
(* More claims about the comparison (checked under SpecDidChange) *)

\* C29: whatever the target ticket stores for its fields, the comparison
\* returns an answer: it does not abort the run.
C29_StoredValueNeverAborts ==
    dpc = "done" => dOut.ret # "panic"

\* C30: a string field absent from the target ticket equals an empty source
\* value: jiraCustomFieldsNeedUpdate answers false for the pair.
C30_AbsentEqualsEmpty ==
    (/\ dpc = "done"
     /\ dOut.fn = "jiraCustomFieldsNeedUpdate"
     /\ AbsentFrom(dTicket.fields, dOut.key)
     /\ SourceValue(dIssue, dOut.key) = "")
        => dOut.ret = "false"

\* the compared ticket in another workflow status
WithStatus(st) == [dTicket EXCEPT !.fields.status = st]

\* C31: without a board column DidIssueChange answers the same for every
\* workflow status of the ticket; with a board column whose name is the
\* status up to letter case it answers as for a status equal to the column.
C31_StatusComparedOnlyWithColumn ==
    (dpc = "done" /\ dOut.fn = "DidIssueChange") =>
        /\ ~dIssue.card.present =>
               \A st \in TicketStatuses :
                   DidIssueChange(strategy, dIssue, WithStatus(st)) = dOut.ret
        /\ (/\ dIssue.card.present
            /\ ToLower(dTicket.fields.status) = ToLower(dIssue.card.column))
               => DidIssueChange(strategy, dIssue,
                                 WithStatus(dIssue.card.column)) = dOut.ret

\* a ticket in status "open" compared with an issue in column "Open" and
\* found unchanged
C31_Witness ==
    /\ dpc = "done"
    /\ dOut.fn = "DidIssueChange"
    /\ dIssue.card.present
    /\ dTicket.fields.status # dIssue.card.column
    /\ ToLower(dTicket.fields.status) = ToLower(dIssue.card.column)
    /\ dOut.ret = "false"

-----------------------------------------------------------------------------
(* More claims about the engine (checked under Spec) *)

\* the operations of the log that are calls to the JIRA client
RemoteOps ==
    {"ListIssues", "getTransitions", "applyTransition", "updateIssue",
     "createIssue", "getIssue", "CompareComments"}

\* C32: source issues are reconciled one at a time in the order of the list:
\* whatever is done for the issue at one position is done before anything is
\* done for an issue at a later position.
C32_IssuesInOrderOneAtATime ==
    \A a \in 1..(Len(log) - 1) : log[a].i <= log[a + 1].i

\* remote calls were made for the first and for the second source issue
C32_Witness ==
    \E a \in DOMAIN log : \E b \in DOMAIN log :
        /\ log[a].op \in RemoteOps /\ log[a].i = 1
        /\ log[b].op \in RemoteOps /\ log[b].i = 2

\* the listed tickets whose GitHub ID, read through the field mapper, is the
\* identifier of the source issue at position i
Matching(i) ==
    {n \in DOMAIN listed :
        GetFieldValue(strategy, listed[n], GitHubID) = Ok(GoInt64(ghIssues[i].id))}

\* the entries of the log that enter UpdateIssue or CreateIssue for position i
Entered(i) ==
    {a \in DOMAIN log : log[a].i = i /\ log[a].op \in {"UpdateIssue", "CreateIssue"}}

\* C33: for each source issue UpdateIssue or CreateIssue is entered at most
\* once; UpdateIssue is entered with the first listed ticket that carries the
\* issue's identifier, and every call made for the issue is for that ticket.
C33_FirstMatchWinsOnce ==
    \A i \in DOMAIN ghIssues :
        \A entered \in {Entered(i)} :
            /\ Cardinality(entered) <= 1
            /\ \A a \in entered :
                  log[a].op = "UpdateIssue" =>
                     \A matching \in {Matching(i)} :
                         /\ matching # {}
                         /\ \E n \in matching :
                               /\ \A m \in matching : n <= m
                               /\ \A b \in DOMAIN log :
                                     log[b].i = i => log[b].key = listed[n].key

\* the ticket of an issue with two listed tickets has been written
C33_Witness ==
    \E i \in DOMAIN ghIssues :
        /\ Cardinality(Matching(i)) = 2
        /\ \E a \in DOMAIN log : log[a].i = i /\ log[a].op = "updateIssue"

\* the GitHub ID the stored ticket carries, as the field mapper reads it
Carried(t) == GetFieldValue(strategy, DecodeIssue(t), GitHubID)

\* no two tickets of the project carry the same GitHub ID
UniqueSourceIDs ==
    \A k \in DOMAIN jira : \A l \in DOMAIN jira :
        (k # l /\ Carried(jira[k]).st = "ok") => Carried(jira[k]) # Carried(jira[l])

\* the source issues have pairwise distinct identifiers
DistinctSources ==
    \A i \in DOMAIN ghIssues : \A j \in DOMAIN ghIssues :
        i # j => ghIssues[i].id # ghIssues[j].id

\* C34: with pairwise distinct source identifiers, no step of a run makes two
\* tickets carry the same GitHub ID when no two did before it.
C34_SourceIDsStayUnique ==
    [][(DistinctSources /\ UniqueSourceIDs) => UniqueSourceIDs']_vars

\* a run that has created one ticket and written another, the project's
\* GitHub IDs being unique
C34_Witness ==
    /\ DistinctSources
    /\ UniqueSourceIDs
    /\ \E a \in DOMAIN log : log[a].op = "createIssue" /\ log[a].res = "ok"
    /\ \E a \in DOMAIN log : log[a].op = "updateIssue" /\ log[a].res = "ok"

\* the place of a remote call among the steps of CreateIssue
Step(op) ==
    CASE op = "createIssue"     -> 1
      [] op = "getTransitions"  -> 2
      [] op = "applyTransition" -> 3
      [] op = "getIssue"        -> 4
      [] op = "CompareComments" -> 5

\* the entries of the log that are remote calls made for position i
CallsFor(i) == {a \in DOMAIN log : log[a].i = i /\ log[a].op \in RemoteOps}

\* CreateIssue has been entered for position i
Creating(i) == \E a \in DOMAIN log : log[a].i = i /\ log[a].op = "CreateIssue"

\* C35: the remote calls CreateIssue makes for an issue come in the order
\* create, list transitions, apply transition, re-fetch, comments, each at
\* most once; nothing follows a failed create, the re-fetch follows a
\* successful create and the comments a successful re-fetch; without a board
\* column no transition is listed or applied.
C35_CreateStepsInOrder ==
    \A i \in DOMAIN ghIssues :
        Creating(i) =>
            \A calls \in {CallsFor(i)} :
                /\ \A a \in calls : \A b \in calls :
                      a < b => /\ Step(log[a].op) < Step(log[b].op)
                               /\ log[a].op = "createIssue" => log[a].res = "ok"
                               /\ log[b].op = "CompareComments" =>
                                     \E c \in calls :
                                         log[c].op = "getIssue" /\ log[c].res = "ok"
                /\ \A a \in calls :
                      Step(log[a].op) > 1 =>
                         \E c \in calls : c < a /\ log[c].op = "createIssue"
                /\ ~ghIssues[i].card.present =>
                      \A a \in calls :
                          log[a].op \notin {"getTransitions", "applyTransition"}

\* a create with a board column that went through all five calls
C35_Witness ==
    \E i \in DOMAIN ghIssues :
        /\ Creating(i)
        /\ {log[a].op : a \in CallsFor(i)}
               = {"createIssue", "getTransitions", "applyTransition", "getIssue",
                  "CompareComments"}

\* the run dealt with the issue at position i without an error: UpdateIssue or
\* CreateIssue ran to the end of its comment reconciliation
CompletedOk(i) ==
    /\ \E a \in DOMAIN log :
          log[a].i = i /\ log[a].op = "CompareComments" /\ log[a].res = "ok"
    /\ \A a \in DOMAIN log : log[a].i = i => log[a].op # "log.Errorf"

\* what a following run lists, given the project as this run left it
NextListing ==
    ListIssues(strategy, jira, [i \in 1..Len(ghIssues) |-> ghIssues[i].id], "ok")

\* C36: after a run, for every issue it dealt with without error, a following
\* run over the unchanged issue and project finds the issue's ticket and
\* finds no difference, so that it creates, writes and transitions nothing.
C36_SecondRunChangesNothing ==
    pc = "done" =>
        \A i \in DOMAIN ghIssues :
            CompletedOk(i) =>
                /\ NextListing.st = "ok"
                /\ FindMatch(strategy, ghIssues[i], NextListing.issues, 1).st = "found"
                /\ DidIssueChange(strategy, ghIssues[i],
                       NextListing.issues[
                           FindMatch(strategy, ghIssues[i],
                                     NextListing.issues, 1).at]) = "false"

\* the listing of the target tickets failed
TicketListingFailed ==
    /\ log # <<>>
    /\ log[1].op = "ListIssues"
    /\ log[1].res # "ok"

\* C37: when the listing of the target tickets fails, CompareIssues returns
\* the error having made no other call; when there is no source issue it
\* returns without any call to the JIRA client.
C37_ListingFailureEndsRunCleanly ==
    /\ TicketListingFailed => (pc = "failed" /\ Len(log) = 1)
    /\ ghIssues = <<>> => (log = <<>> /\ pc \in {"start", "done"})

-----------------------------------------------------------------------------
(* More claims about the source listing (checked under SpecSource) *)

\* walking the events of issue `number` ends with an error
WalkFails(number) ==
    getCurrentProjectCardAndCommitIds(EventPagesOf(number), gEventsUp).err # "nil"

\* C38: ListIssues fails only when a request for a page of issues fails; every
\* listed issue is returned, with no board column and no commits when the
\* walk of its events failed or the repository has no projects; and events
\* are requested for the issues of a page exactly when it has projects.
C38_EventFailureKeepsIssue ==
    /\ (gpc = "returned" /\ gResult.err # "nil") => ~gReq[Len(gReq)].ok
    /\ \A k \in 1..Len(gReq) :
          gReq[k].walked = (IF gHas /\ gReq[k].ok
                            THEN Numbers(SelectSeq(gReq[k].items, IsIssue))
                            ELSE <<>>)
    /\ Returned =>
          /\ Numbers(gResult.issues) = RetainedUpTo(Len(gReq))
          /\ \A k \in 1..Len(gResult.issues) :
                (~gHas \/ WalkFails(gResult.issues[k].number)) =>
                    /\ gResult.issues[k].card = NoCard
                    /\ gResult.issues[k].commitIds = NilSlice

\* a listing returned with an issue whose events failed on their second page
\* and another whose events gave it a board column
C38_Witness ==
    /\ Returned
    /\ gHas /\ gEventsUp
    /\ \E k \in 1..Len(gResult.issues) : WalkFails(gResult.issues[k].number)
    /\ \E k \in 1..Len(gResult.issues) : gResult.issues[k].card.present

-----------------------------------------------------------------------------
(* issuesyncjira.CreateComment and UpdateComment: the body submitted *)

maxBodyLength == 2^15

MaxHeader == 2

MaxOver == 30

\* a string, as the bytes lo .. hi-1 of the full body
Bytes(lo, hi) == [lo |-> lo, hi |-> hi]

StrLen(str) == str.hi - str.lo

\* str[:n]
SliceTo(str, n) == Bytes(str.lo, str.lo + n)

\* the header followed by the source comment text, as the calls of
\* fmt.Sprintf build it
FullBody(header, text) == Bytes(0, header + text)

\* if len(body) > maxBodyLength { body = body[:maxBodyLength] }
Truncate(body) ==
    IF StrLen(body) > maxBodyLength THEN SliceTo(body, maxBodyLength) ELSE body

CommentInit ==
    /\ strategy = "default"
    /\ kpc = "start"
    /\ kFn = "none"
    /\ kHeader \in 1..MaxHeader
    /\ kText \in (maxBodyLength - MaxOver)..(maxBodyLength + MaxOver)
    /\ kSent = Bytes(0, 0)
    /\ OthersIdle("comment")

\* CreateComment: GetUser, the body, GetUser again, addComment
K_CreateComment ==
    /\ kpc = "start"
    /\ kFn' = "CreateComment"
    /\ \E user \in {"ok", "err"} :
          IF user = "err"
          THEN /\ kpc' = "returned"
               /\ UNCHANGED kSent
          ELSE /\ kSent' = Truncate(FullBody(kHeader, kText))
               /\ kpc' = "sent"
    /\ UNCHANGED <<strategy, kHeader, kText, restOfComment>>

\* UpdateComment: GetUser, the body, the PUT request
K_UpdateComment ==
    /\ kpc = "start"
    /\ kFn' = "UpdateComment"
    /\ \E user \in {"ok", "err"} :
          IF user = "err"
          THEN /\ kpc' = "returned"
               /\ UNCHANGED kSent
          ELSE /\ kSent' = Truncate(FullBody(kHeader, kText))
               /\ kpc' = "sent"
    /\ UNCHANGED <<strategy, kHeader, kText, restOfComment>>

CommentNext == K_CreateComment \/ K_UpdateComment

SpecComment == CommentInit /\ [][CommentNext]_vars

\* C39: the body submitted by CreateComment or UpdateComment is at most
\* 2^15 - 1 long and is a prefix of the full body.
C39_BodyAtMostLimit ==
    kpc = "sent" =>
        /\ StrLen(kSent) <= 2^15 - 1
        /\ kSent.lo = 0
        /\ kSent.hi <= kHeader + kText

====
